---- MODULE Spec2Model ----
(***************************************************************************)
(* The attempt lifecycle of the quiz application: QuizService              *)
(* (services/quiz_service.py) working on the quizzes and attempts          *)
(* collections of the document store (config/database.py), with the        *)
(* QuizAttempt and Quiz models (models/quiz_attempt.py, models/quiz.py)    *)
(* and the save-progress route (app/routes/quiz.py).                       *)
(*                                                                         *)
(* Every request is served by a handler p \in Procs.  A step of a handler  *)
(* is one round trip to the store (find_one, insert_one, update_one)       *)
(* together with the local computation that follows it up to the next      *)
(* round trip; the store applies each round trip atomically, and nothing   *)
(* else orders the handlers.                                               *)
(***************************************************************************)
EXTENDS Integers, Sequences, FiniteSets, TLC

\* ------------------------------------------------------------- bounds
\* Requests served in one behaviour.
MaxCalls == 4
\* Longest quiz a create_quiz request carries; question indices a client
\* sends range over 0..MaxQuestions, so one of them is always out of range.
MaxQuestions == 2
\* Entries of one save-progress payload.
MaxBatch == 2
\* Longest answer key calculate_score is given by itself.
MaxKey == 3
\* Most answers of the attempt it is given.
MaxAnswers == 3
\* Questions of the quiz whose analytics are taken by themselves.
MaxScore == 10

Procs == {"p1", "p2"}
Users == {"u1", "u2"}
Dates == {"d1"}

\* ------------------------------------------------------ Python values
\* A Python scalar with its type: int n, str s, or None.  Values of
\* different types are never equal (0 == "0" is False in Python).
PyInt(n) == [t |-> "int", n |-> n, s |-> ""]
PyStr(s) == [t |-> "str", n |-> 0, s |-> s]
PyNone == [t |-> "none", n |-> 0, s |-> ""]

\* is_correct is None until scored, then a bool.
PyBool(b) == [t |-> "bool", n |-> IF b THEN 1 ELSE 0, s |-> ""]

\* An Optional object that is None (find_one found nothing; no attempt or
\* score result is returned).
None == [none |-> TRUE]

\* completed_at = None; the timestamps datetime.utcnow() returns are >= 1.
NoTime == 0

\* The attribute attempt.id before insert_one sets it.
NoId == 0

\* ---------------------------------------------------------- percentage
RECURSIVE Gcd(_, _)
Gcd(a, b) == IF b = 0 THEN a ELSE Gcd(b, a % b)

\* The number num/den in lowest terms.
Ratio(num, den) ==
    LET g == Gcd(num, den) IN [num |-> num \div g, den |-> den \div g]

\* percentage = 0.0 of a new attempt.
ZeroPct == [num |-> 0, den |-> 1]

\* A percentage computed with integer division.
PercentageFloor(score, total_questions) ==
    IF total_questions > 0 THEN Ratio((score * 100) \div total_questions, 1) ELSE ZeroPct

\* (score / total_questions * 100) if total_questions > 0 else 0
Percentage(score, total_questions) ==
    IF total_questions > 0 THEN Ratio(score * 100, total_questions) ELSE ZeroPct

\* n/d rounded to the nearest integer, a tie to the even one.
RoundHalfEven(n, d) ==
    LET q == n \div d
        r == n % d IN
    IF 2 * r < d THEN q
    ELSE IF 2 * r > d THEN q + 1
    ELSE IF q % 2 = 0 THEN q ELSE q + 1

\* round(x, 2): the nearest multiple of 1/100.  (A quotient of the sizes
\* modelled is no tie, so the float the code rounds and the exact number
\* round alike.)
Round2(x) == Ratio(RoundHalfEven(x.num * 100, x.den), 100)

\* -------------------------------------------------------------- Quiz
OptionKeys == {"A", "B"}

\* A question of an uploaded quiz: which keys the dict has, the keys of
\* its options dict, and its answer.
Question(has_question, has_options, options_is_dict, options, has_answer, answer) ==
    [has_question |-> has_question, has_options |-> has_options,
     options_is_dict |-> options_is_dict, options |-> options,
     has_answer |-> has_answer, answer |-> answer]

\* A well-formed question whose correct option is `answer`.
GoodQuestion(answer) == Question(TRUE, TRUE, TRUE, OptionKeys, TRUE, answer)

\* A question whose answer is none of its options.
BadAnswerQuestion == Question(TRUE, TRUE, TRUE, OptionKeys, TRUE, "C")

\* The n-question quiz whose key alternates A, B, A, ...
AltQuestions(n) == [i \in 1..n |-> GoodQuestion(IF i % 2 = 1 THEN "A" ELSE "B")]

\* The questions lists the create_quiz requests of Spec carry: none, a
\* full quiz, and one with a question that does not validate.
QuizPayloads ==
    {AltQuestions(0), AltQuestions(MaxQuestions), <<BadAnswerQuestion>>}

\* Quiz._validate_question: the errors of one question, in order.
ValidateQuestion(question, index) ==
    (IF ~question.has_question THEN <<<<index + 1, "Missing question text">>>> ELSE <<>>)
    \o (IF ~question.has_options THEN <<<<index + 1, "Missing options">>>>
        ELSE IF ~question.options_is_dict
             THEN <<<<index + 1, "Options must be a dictionary">>>> ELSE <<>>)
    \o (IF ~question.has_answer THEN <<<<index + 1, "Missing correct answer">>>> ELSE <<>>)
    \o (IF question.has_options /\ question.options_is_dict
        THEN (IF Cardinality(question.options) < 2
              THEN <<<<index + 1, "Must have at least 2 options">>>> ELSE <<>>)
             \o (IF question.has_answer /\ question.answer \notin question.options
                 THEN <<<<index + 1, "Answer must be one of the options">>>> ELSE <<>>)
        ELSE <<>>)

\* A validation that stops at the first error of the first bad question.
RECURSIVE ValidateQuestionsFirst(_, _)
ValidateQuestionsFirst(questions, i) ==
    IF i > Len(questions) THEN <<>>
    ELSE LET e == ValidateQuestion(questions[i], i - 1) IN
         IF e # <<>> THEN <<e[1]>> ELSE ValidateQuestionsFirst(questions, i + 1)

RECURSIVE ValidateQuestions(_, _)
ValidateQuestions(questions, i) ==
    IF i > Len(questions) THEN <<>>
    ELSE ValidateQuestion(questions[i], i - 1) \o ValidateQuestions(questions, i + 1)

\* Quiz.validate of Quiz(quiz_date, questions): total_questions is
\* len(questions) there (None or len(questions)).
Validate(quiz_date, questions) ==
    (IF quiz_date = "" THEN <<<<0, "Quiz date is required">>>> ELSE <<>>)
    \o (IF Len(questions) = 0 THEN <<<<0, "Questions are required">>>> ELSE <<>>)
    \o (IF Len(questions) <= 0
        THEN <<<<0, "Total questions must be greater than 0">>>> ELSE <<>>)
    \o ValidateQuestions(questions, 1)

\* Quiz.to_dict with the _id insert_one gives it.
QuizDoc(id, quiz_date, questions, now) ==
    [id |-> id, quiz_date |-> quiz_date, questions |-> questions,
     total_questions |-> Len(questions), created_at |-> now, updated_at |-> now]

\* Quiz.get_total_questions
GetTotalQuestions(quiz) == Len(quiz.questions)

\* correct_answers[i] = question['answer'] for i, question in enumerate(...)
CorrectAnswers(quiz) == [i \in 1..Len(quiz.questions) |-> PyStr(quiz.questions[i].answer)]

\* ------------------------------------------------------- QuizAttempt
\* QuizAttempt.__init__
NewAttempt(user_id, quiz_date, now) ==
    [id |-> NoId, user_id |-> user_id, quiz_date |-> quiz_date, answers |-> <<>>,
     score |-> 0, total_questions |-> 0, percentage |-> ZeroPct,
     attempted_at |-> now, completed_at |-> NoTime, is_completed |-> FALSE,
     auto_saved |-> FALSE]

\* QuizAttempt.get_answer_for_question: the position of the first answer
\* with this question_index, 0 when there is none.
AnswerPos(answers, question_index) ==
    IF \E k \in 1..Len(answers) : answers[k].question_index = question_index
    THEN CHOOSE k \in 1..Len(answers) :
            /\ answers[k].question_index = question_index
            /\ \A j \in 1..(k - 1) : answers[j].question_index # question_index
    ELSE 0

\* An add_answer that never looks for an existing answer: always appends.
AddAnswerAppend(answers, question_index, selected_answer, now) ==
    Append(answers, [question_index |-> question_index,
                     selected_answer |-> selected_answer,
                     is_correct |-> PyNone, answered_at |-> now])

\* QuizAttempt.add_answer(question_index, selected_answer), is_correct=None
AddAnswer(answers, question_index, selected_answer, now) ==
    LET k == AnswerPos(answers, question_index) IN
    IF k > 0
    THEN [answers EXCEPT ![k] = [@ EXCEPT !.selected_answer = selected_answer,
                                          !.is_correct = PyNone,
                                          !.answered_at = now]]
    ELSE Append(answers, [question_index |-> question_index,
                          selected_answer |-> selected_answer,
                          is_correct |-> PyNone, answered_at |-> now])

\* The loop of QuizAttempt.calculate_score from key index i on: the
\* answers with is_correct set, and the score.
RECURSIVE ScoreLoop(_, _, _, _)
ScoreLoop(correct_answers, i, answers, score) ==
    IF i > Len(correct_answers) THEN [answers |-> answers, score |-> score]
    ELSE LET k == AnswerPos(answers, PyInt(i - 1)) IN
         IF k > 0 /\ answers[k].selected_answer = correct_answers[i]
         THEN ScoreLoop(correct_answers, i + 1,
                        [answers EXCEPT ![k].is_correct = PyBool(TRUE)], score + 1)
         ELSE IF k > 0
         THEN ScoreLoop(correct_answers, i + 1,
                        [answers EXCEPT ![k].is_correct = PyBool(FALSE)], score)
         ELSE ScoreLoop(correct_answers, i + 1, answers, score)

\* QuizAttempt.calculate_score: the attempt afterwards.
CalculateScore(attempt, correct_answers) ==
    LET r == ScoreLoop(correct_answers, 1, attempt.answers, 0) IN
    [attempt EXCEPT !.total_questions = Len(correct_answers),
                    !.score = r.score,
                    !.answers = r.answers,
                    !.percentage = Percentage(r.score, Len(correct_answers))]

\* The dict calculate_score returns.
ScoreResult(attempt) ==
    [score |-> attempt.score, total_questions |-> attempt.total_questions,
     percentage |-> Round2(attempt.percentage)]

\* QuizAttempt.complete_attempt
CompleteAttempt(attempt, now) ==
    [attempt EXCEPT !.is_completed = TRUE, !.completed_at = now]

\* A summary that leaves out the answers beyond the questions of the quiz.
GetAnswersInRange(attempt) ==
    LET in_range(answer) ==
            /\ answer.question_index.t = "int"
            /\ answer.question_index.n < attempt.total_questions IN
    SelectSeq(attempt.answers, in_range)

\* QuizAttempt.get_answers_summary
GetAnswersSummary(attempt) ==
    [k \in 1..Len(attempt.answers) |->
        [question_index |-> attempt.answers[k].question_index,
         selected_answer |-> attempt.answers[k].selected_answer,
         is_correct |-> attempt.answers[k].is_correct,
         answered_at |-> attempt.answers[k].answered_at]]

\* ------------------------------------------------------------- state
VARIABLES
    connected,            \* db.is_connected(): fixed when init_app returns
    users_collection,     \* db.users: the documents in insertion order
    quizzes_collection,   \* db.quizzes: the documents in insertion order
    attempts_collection,  \* db.attempts: the documents in insertion order
    calls,                \* requests received so far
    pc,                   \* where each handler stands
    op,                   \* the operation each handler serves
    args,                 \* its arguments, and the time it reads
    attempt,              \* its local QuizAttempt (None: not read yet)
    batch,                \* save_progress: entries left, and saved_count
    found,                \* analytics: the documents a find() returned
    res                   \* what it returned

vars == <<connected, users_collection, quizzes_collection, attempts_collection, calls,
          pc, op, args, attempt, batch, found, res>>

\* ------------------------------------------------------------- store
\* find_one(filter): the first document that matches, or None.
FindQuizOne(quiz_date) ==
    IF \E k \in 1..Len(quizzes_collection) : quizzes_collection[k].quiz_date = quiz_date
    THEN quizzes_collection[CHOOSE k \in 1..Len(quizzes_collection) :
            /\ quizzes_collection[k].quiz_date = quiz_date
            /\ \A j \in 1..(k - 1) : quizzes_collection[j].quiz_date # quiz_date]
    ELSE None

FindAttemptOne(user_id, quiz_date) ==
    LET hit(k) == /\ attempts_collection[k].user_id = user_id
                  /\ attempts_collection[k].quiz_date = quiz_date IN
    IF \E k \in 1..Len(attempts_collection) : hit(k)
    THEN attempts_collection[CHOOSE k \in 1..Len(attempts_collection) :
            hit(k) /\ \A j \in 1..(k - 1) : ~hit(j)]
    ELSE None

\* An attempts collection without the unique index: no insert is refused.
AttemptKeyFree(doc) == FALSE

\* create_index([("user_id", 1), ("quiz_date", 1)], unique=True): insert_one
\* raises DuplicateKeyError when a document holds the same pair.
AttemptKeyTaken(doc) ==
    \E k \in 1..Len(attempts_collection) :
        /\ attempts_collection[k].user_id = doc.user_id
        /\ attempts_collection[k].quiz_date = doc.quiz_date

\* A quizzes collection without the unique index.
QuizKeyFree(quiz_date) == FALSE

\* create_index("quiz_date", unique=True)
QuizKeyTaken(quiz_date) ==
    \E k \in 1..Len(quizzes_collection) : quizzes_collection[k].quiz_date = quiz_date

\* An update whose filter matches every document of the collection.
MatchedAll(id) == 1..Len(attempts_collection)

\* The documents update_one({"_id": id}, ...) matches (_id is unique).
MatchedById(id) == {k \in 1..Len(attempts_collection) : attempts_collection[k].id = id}

\* A from_dict that does not copy is_completed (the attribute keeps the
\* False of __init__).
FromDictInProgress(data) ==
    [id |-> data.id, user_id |-> data.user_id, quiz_date |-> data.quiz_date,
     answers |-> data.answers, score |-> data.score,
     total_questions |-> data.total_questions, percentage |-> data.percentage,
     attempted_at |-> data.attempted_at, completed_at |-> data.completed_at,
     is_completed |-> FALSE, auto_saved |-> data.auto_saved]

\* QuizAttempt.from_dict
FromDict(data) ==
    [id |-> data.id, user_id |-> data.user_id, quiz_date |-> data.quiz_date,
     answers |-> data.answers, score |-> data.score,
     total_questions |-> data.total_questions, percentage |-> data.percentage,
     attempted_at |-> data.attempted_at, completed_at |-> data.completed_at,
     is_completed |-> data.is_completed, auto_saved |-> data.auto_saved]

\* QuizAttempt.to_dict, with the _id insert_one gives the document.
ToDict(a, id) ==
    [id |-> id, user_id |-> a.user_id, quiz_date |-> a.quiz_date,
     answers |-> a.answers, score |-> a.score,
     total_questions |-> a.total_questions, percentage |-> a.percentage,
     attempted_at |-> a.attempted_at, completed_at |-> a.completed_at,
     is_completed |-> a.is_completed, auto_saved |-> a.auto_saved]

\* QuizService.get_quiz_by_date
GetQuizByDate(quiz_date) == IF connected THEN FindQuizOne(quiz_date) ELSE None

\* QuizService.get_user_attempt
GetUserAttempt(user_id, quiz_date) ==
    IF connected
    THEN LET doc == FindAttemptOne(user_id, quiz_date) IN
         IF doc = None THEN None ELSE FromDict(doc)
    ELSE None

\* User.to_dict of a user who has signed in; the name and the e-mail are
\* written as the user id.
UserDoc(user_id) == [user_id |-> user_id, email |-> user_id, name |-> user_id]

\* The users collection when the requests modelled arrive: their users
\* have signed in.
Directory == <<UserDoc("u1"), UserDoc("u2")>>

\* ----------------------------------------------------------- handlers
NoArgs ==
    [user_id |-> "", quiz_date |-> "", question_index |-> PyNone,
     selected_answer |-> PyNone, questions |-> <<>>, now |-> NoTime]

NoBatch == [todo |-> <<>>, saved_count |-> 0]

\* The documents an analytics call has read: none yet.
NoFound == [quizzes |-> <<>>, attempts |-> <<>>]

\* What a handler returns: (success, message) and, by operation, the
\* attempt, the score result, the validation errors, the saved count or
\* the statistics.
Result(ok, message) ==
    [ok |-> ok, message |-> message, attempt |-> None, score_result |-> None,
     errors |-> <<>>, saved_count |-> 0, stats |-> None]

NoResult == Result(FALSE, "")

Init ==
    /\ connected \in BOOLEAN
    /\ users_collection = Directory
    /\ quizzes_collection = <<>>
    /\ attempts_collection = <<>>
    /\ calls = 0
    /\ pc = [p \in Procs |-> "idle"]
    /\ op = [p \in Procs |-> ""]
    /\ args = [p \in Procs |-> NoArgs]
    /\ attempt = [p \in Procs |-> None]
    /\ batch = [p \in Procs |-> NoBatch]
    /\ found = [p \in Procs |-> NoFound]
    /\ res = [p \in Procs |-> NoResult]

\* The handlers in the order the server hands requests to them.
Rank == [p \in Procs |-> IF p = "p1" THEN 1 ELSE 2]

\* A handler that is serving no request.
Idle(p) == pc[p] \in {"idle", "done"}

\* The next request goes to the first handler that is serving none (which
\* handler serves a request changes nothing it does).
Free(p) == Idle(p) /\ calls < MaxCalls /\ \A q \in Procs : Rank[q] < Rank[p] => ~Idle(q)

\* The request is received: its operation, its arguments, the time.
Receive(p, o, a) ==
    /\ calls' = calls + 1
    /\ op' = [op EXCEPT ![p] = o]
    /\ args' = [args EXCEPT ![p] = [a EXCEPT !.now = calls + 1]]

\* The handler returns r.
Return(p, r) ==
    /\ pc' = [pc EXCEPT ![p] = "done"]
    /\ res' = [res EXCEPT ![p] = r]
    /\ attempt' = [attempt EXCEPT ![p] = None]
    /\ found' = [found EXCEPT ![p] = NoFound]

\* The handler goes on to step l with local attempt a.
Goto(p, l, a) ==
    /\ pc' = [pc EXCEPT ![p] = l]
    /\ res' = [res EXCEPT ![p] = NoResult]
    /\ attempt' = [attempt EXCEPT ![p] = a]
    /\ found' = [found EXCEPT ![p] = NoFound]

\* ------------------------------------------- can_user_attempt_quiz
\* A check that takes every date to have a quiz.
QuizNeverMissing(quiz) == FALSE

\* Line 164: if not quiz.
QuizMissing(quiz) == quiz = None

\* A check that refuses every user who has an attempt, completed or not.
AlreadyAttempted(existing_attempt) == existing_attempt # None

\* Line 169: existing_attempt and existing_attempt.is_completed.
AlreadyCompleted(existing_attempt) ==
    existing_attempt # None /\ existing_attempt.is_completed

\* can_user_attempt_quiz, lines 159-165, called directly (o =
\* "can_user_attempt_quiz") or from start_quiz_attempt line 176: the
\* connection check and get_quiz_by_date.
CanAttemptQuiz(p, o, user_id, quiz_date) ==
    /\ Free(p)
    /\ Receive(p, o, [NoArgs EXCEPT !.user_id = user_id, !.quiz_date = quiz_date])
    /\ IF ~connected
       THEN Return(p, Result(FALSE, "Database not connected"))
       ELSE IF QuizMissing(GetQuizByDate(quiz_date))
       THEN Return(p, Result(FALSE, "No quiz available for date"))
       ELSE Goto(p, "can_attempt", None)
    /\ UNCHANGED <<connected, users_collection, quizzes_collection, attempts_collection, batch>>

\* can_user_attempt_quiz, lines 168-172: get_user_attempt and the verdict;
\* start_quiz_attempt goes on at line 180 when the verdict is True.
CanAttemptAttempt(p) ==
    /\ pc[p] = "can_attempt"
    /\ LET existing_attempt == GetUserAttempt(args[p].user_id, args[p].quiz_date) IN
       IF AlreadyCompleted(existing_attempt)
       THEN Return(p, Result(FALSE, "You have already completed this quiz"))
       ELSE IF op[p] = "can_user_attempt_quiz"
       THEN Return(p, Result(TRUE, "User can attempt quiz"))
       ELSE IF ~connected
       THEN Return(p, Result(FALSE, "Database not connected"))
       ELSE Goto(p, "start_existing", None)
    /\ UNCHANGED <<connected, users_collection, quizzes_collection, attempts_collection, calls,
                   op, args, batch>>

\* ---------------------------------------------- start_quiz_attempt
\* A check that resumes nothing.
NeverResumable(existing_attempt) == FALSE

\* Line 187: existing_attempt and not existing_attempt.is_completed.
Resumable(existing_attempt) ==
    existing_attempt # None /\ ~existing_attempt.is_completed

\* start_quiz_attempt, lines 185-192: get_user_attempt; an attempt in
\* progress is returned, otherwise a new QuizAttempt is built.
StartExisting(p) ==
    /\ pc[p] = "start_existing"
    /\ LET existing_attempt == GetUserAttempt(args[p].user_id, args[p].quiz_date) IN
       IF Resumable(existing_attempt)
       THEN Return(p, [Result(TRUE, "Resuming existing attempt")
                          EXCEPT !.attempt = existing_attempt])
       ELSE Goto(p, "start_quiz",
                 NewAttempt(args[p].user_id, args[p].quiz_date, args[p].now))
    /\ UNCHANGED <<connected, users_collection, quizzes_collection, attempts_collection, calls,
                   op, args, batch>>

\* start_quiz_attempt, lines 195-197: get_quiz_by_date sets total_questions.
StartQuiz(p) ==
    /\ pc[p] = "start_quiz"
    /\ LET quiz == GetQuizByDate(args[p].quiz_date) IN
       Goto(p, "start_insert",
            IF quiz # None
            THEN [attempt[p] EXCEPT !.total_questions = GetTotalQuestions(quiz)]
            ELSE attempt[p])
    /\ UNCHANGED <<connected, users_collection, quizzes_collection, attempts_collection, calls,
                   op, args, batch>>

\* start_quiz_attempt, lines 200-206: insert_one; the DuplicateKeyError of
\* the unique index is caught by the except clause of line 205.
StartInsert(p) ==
    /\ pc[p] = "start_insert"
    /\ IF AttemptKeyTaken(attempt[p])
       THEN /\ Return(p, Result(FALSE, "Error starting attempt: DuplicateKeyError"))
            /\ UNCHANGED attempts_collection
       ELSE LET id == Len(attempts_collection) + 1 IN
            /\ attempts_collection' = Append(attempts_collection, ToDict(attempt[p], id))
            /\ Return(p, [Result(TRUE, "New attempt started")
                             EXCEPT !.attempt = [attempt[p] EXCEPT !.id = id]])
    /\ UNCHANGED <<connected, users_collection, quizzes_collection, calls, op, args, batch>>

\* ------------------------------------------------------ save_answer
\* A save_answer without the is_completed check of lines 219-221.
SaveAnswerReadUnchecked(user_id, quiz_date, question_index, selected_answer, now) ==
    LET a == GetUserAttempt(user_id, quiz_date)
        refused(m) == [ok |-> FALSE, message |-> m, attempt |-> None] IN
    IF ~connected THEN refused("Database not connected")
    ELSE IF a = None THEN refused("No active attempt found")
    ELSE [ok |-> TRUE, message |-> "",
          attempt |-> [a EXCEPT !.answers =
                          AddAnswer(a.answers, question_index, selected_answer, now)]]

\* save_answer, lines 210-224: the connection check, get_user_attempt,
\* the two refusals, add_answer.  ok: the call goes on to update_one with
\* this attempt; otherwise it returns (False, message).
SaveAnswerRead(user_id, quiz_date, question_index, selected_answer, now) ==
    LET a == GetUserAttempt(user_id, quiz_date)
        refused(m) == [ok |-> FALSE, message |-> m, attempt |-> None] IN
    IF ~connected THEN refused("Database not connected")
    ELSE IF a = None THEN refused("No active attempt found")
    ELSE IF a.is_completed THEN refused("Quiz already completed")
    ELSE [ok |-> TRUE, message |-> "",
          attempt |-> [a EXCEPT !.answers =
                          AddAnswer(a.answers, question_index, selected_answer, now)]]

\* QuizService.save_answer called by itself.
SaveAnswer(p, user_id, quiz_date, question_index, selected_answer) ==
    /\ Free(p)
    /\ Receive(p, "save_answer",
               [NoArgs EXCEPT !.user_id = user_id, !.quiz_date = quiz_date,
                              !.question_index = question_index,
                              !.selected_answer = selected_answer])
    /\ LET r == SaveAnswerRead(user_id, quiz_date, question_index,
                               selected_answer, calls + 1) IN
       IF r.ok THEN Goto(p, "answer_update", r.attempt)
       ELSE Return(p, Result(FALSE, r.message))
    /\ batch' = [batch EXCEPT ![p] = NoBatch]
    /\ UNCHANGED <<connected, users_collection, quizzes_collection, attempts_collection>>

\* An update that writes the whole local attempt back, not the two fields.
SetWholeAttempt(doc, a) == [a EXCEPT !.auto_saved = TRUE]

\* An update that pushes the local answers onto the stored array.
PushAnswers(doc, a) == [doc EXCEPT !.answers = @ \o a.answers, !.auto_saved = TRUE]

\* The $set of save_answer on a document: answers and auto_saved.
SetAnswers(doc, a) == [doc EXCEPT !.answers = a.answers, !.auto_saved = TRUE]

\* update_one of save_answer, lines 231-237.
UpdateAnswers(a) ==
    [k \in 1..Len(attempts_collection) |->
        IF k \in MatchedById(a.id) THEN SetAnswers(attempts_collection[k], a)
        ELSE attempts_collection[k]]

\* The entries of the save-progress loop still to take after this one, and
\* the response of the route when none is left (line 138).
NextEntry(p, saved_count) ==
    LET todo == Tail(batch[p].todo) IN
    IF todo = <<>>
    THEN /\ batch' = [batch EXCEPT ![p] = NoBatch]
         /\ Return(p, [Result(TRUE, "Progress saved") EXCEPT !.saved_count = saved_count])
    ELSE /\ batch' = [batch EXCEPT ![p] = [todo |-> todo, saved_count |-> saved_count]]
         /\ Goto(p, "progress_entry", None)

\* save_answer, lines 231-242: update_one by _id and the result; inside
\* save_progress the loop counts the success and goes on (lines 131-133).
AnswerUpdate(p) ==
    /\ pc[p] = "answer_update"
    /\ attempts_collection' = UpdateAnswers(attempt[p])
    /\ IF op[p] = "save_answer"
       THEN /\ IF MatchedById(attempt[p].id) = {}
               THEN Return(p, Result(FALSE, "No attempt found with id"))
               ELSE Return(p, Result(TRUE, "Answer saved successfully"))
            /\ UNCHANGED batch
       ELSE NextEntry(p, IF MatchedById(attempt[p].id) = {}
                         THEN batch[p].saved_count ELSE batch[p].saved_count + 1)
    /\ UNCHANGED <<connected, users_collection, quizzes_collection, calls, op, args>>

\* ---------------------------------------------------- save_progress
\* The decimal numerals int() reads.
Numerals == <<"0", "1", "2", "3", "4", "5", "6", "7", "8", "9">>

\* Lines 123-127 of the route: q_index = int(k), or k itself when int(k)
\* raises.
QIndex(k) ==
    IF k.t = "str" /\ \E n \in 1..Len(Numerals) : Numerals[n] = k.s
    THEN PyInt((CHOOSE n \in 1..Len(Numerals) : Numerals[n] = k.s) - 1)
    ELSE k

\* The keys of the JSON object a client sends: the index of the first
\* question as a string, and a key that is no number.
JsonKeys == {PyStr("0"), PyStr("x")}

\* Its values: an option, or null.
JsonValues == {PyStr("A"), PyNone}

\* The payloads {key: value}: dicts of at most MaxBatch entries, in the
\* order of iteration.
Payloads ==
    {b \in UNION {[1..n -> JsonKeys \X JsonValues] : n \in 0..MaxBatch} :
        \A i, j \in 1..Len(b) : i # j => b[i][1] # b[j][1]}

\* The route save_progress, lines 109-118.
SaveProgress(p, user_id, quiz_date, answers) ==
    /\ Free(p)
    /\ Receive(p, "save_progress",
               [NoArgs EXCEPT !.user_id = user_id, !.quiz_date = quiz_date])
    /\ batch' = [batch EXCEPT ![p] = [todo |-> answers, saved_count |-> 0]]
    /\ IF answers = <<>>
       THEN Return(p, Result(TRUE, "No answers to save"))
       ELSE Goto(p, "progress_entry", None)
    /\ UNCHANGED <<connected, users_collection, quizzes_collection, attempts_collection>>

\* One turn of the loop, lines 122-135: the entry is skipped, or
\* save_answer is called for it and reads the attempt.  The entry stays
\* the first of todo until its save_answer returns.
ProgressEntry(p) ==
    /\ pc[p] = "progress_entry"
    /\ LET k == batch[p].todo[1][1]
           v == batch[p].todo[1][2]
           q_index == QIndex(k)
           r == SaveAnswerRead(args[p].user_id, args[p].quiz_date, q_index, v,
                               args[p].now) IN
       IF q_index = PyNone \/ v = PyNone
       THEN NextEntry(p, batch[p].saved_count)
       ELSE IF r.ok THEN Goto(p, "answer_update", r.attempt) /\ UNCHANGED batch
       ELSE NextEntry(p, batch[p].saved_count)
    /\ UNCHANGED <<connected, users_collection, quizzes_collection, attempts_collection, calls, op, args>>

\* ------------------------------------------------------ submit_quiz
\* submit_quiz, lines 249-259: the connection check, get_user_attempt and
\* the two refusals.
SubmitQuiz(p, user_id, quiz_date) ==
    /\ Free(p)
    /\ Receive(p, "submit_quiz",
               [NoArgs EXCEPT !.user_id = user_id, !.quiz_date = quiz_date])
    /\ LET a == GetUserAttempt(user_id, quiz_date) IN
       IF ~connected THEN Return(p, Result(FALSE, "Database not connected"))
       ELSE IF a = None THEN Return(p, Result(FALSE, "No active attempt found"))
       ELSE IF a.is_completed THEN Return(p, Result(FALSE, "Quiz already completed"))
       ELSE Goto(p, "submit_score", a)
    /\ batch' = [batch EXCEPT ![p] = NoBatch]
    /\ UNCHANGED <<connected, users_collection, quizzes_collection, attempts_collection>>

\* submit_quiz, lines 262-283: get_quiz_by_date, the answer key,
\* calculate_score, complete_attempt.
SubmitScore(p) ==
    /\ pc[p] = "submit_score"
    /\ LET quiz == GetQuizByDate(args[p].quiz_date) IN
       IF quiz = None THEN Return(p, Result(FALSE, "Quiz not found"))
       ELSE Goto(p, "submit_update",
                 CompleteAttempt(CalculateScore(attempt[p], CorrectAnswers(quiz)),
                                 args[p].now))
    /\ UNCHANGED <<connected, users_collection, quizzes_collection, attempts_collection, calls,
                   op, args, batch>>

\* A $set of the score fields only, is_completed and completed_at being
\* left to a later update.
SetScores(doc, a) ==
    [doc EXCEPT !.score = a.score, !.total_questions = a.total_questions,
                !.percentage = a.percentage, !.answers = GetAnswersSummary(a)]

\* The $set of submit_quiz on a document, lines 287-294.
SetCompleted(doc, a) ==
    [doc EXCEPT !.score = a.score, !.total_questions = a.total_questions,
                !.percentage = a.percentage, !.is_completed = TRUE,
                !.completed_at = a.completed_at, !.answers = GetAnswersSummary(a)]

\* update_one of submit_quiz, lines 285-295.
UpdateCompleted(a) ==
    [k \in 1..Len(attempts_collection) |->
        IF k \in MatchedById(a.id) THEN SetCompleted(attempts_collection[k], a)
        ELSE attempts_collection[k]]

\* submit_quiz, lines 285-300: update_one by _id and the result.
SubmitUpdate(p) ==
    /\ pc[p] = "submit_update"
    /\ attempts_collection' = UpdateCompleted(attempt[p])
    /\ IF MatchedById(attempt[p].id) = {}
       THEN Return(p, Result(FALSE, "Failed to update attempt"))
       ELSE Return(p, [Result(TRUE, "Quiz submitted successfully")
                          EXCEPT !.score_result = ScoreResult(attempt[p])])
    /\ UNCHANGED <<connected, users_collection, quizzes_collection, calls, op, args, batch>>

\* ------------------------------------------------------ create_quiz
\* create_quiz, lines 110-128: the connection check, Quiz.validate, and
\* find_one for a quiz of the same date.
CreateQuiz(p, quiz_date, questions) ==
    /\ Free(p)
    /\ Receive(p, "create_quiz",
               [NoArgs EXCEPT !.quiz_date = quiz_date, !.questions = questions])
    /\ LET validation_errors == Validate(quiz_date, questions) IN
       IF ~connected THEN Return(p, Result(FALSE, "Database not connected"))
       ELSE IF validation_errors # <<>>
       THEN Return(p, [Result(FALSE, "Validation errors")
                          EXCEPT !.errors = validation_errors])
       ELSE IF FindQuizOne(quiz_date) # None
       THEN Return(p, Result(FALSE, "Quiz already exists for date"))
       ELSE Goto(p, "quiz_insert", None)
    /\ batch' = [batch EXCEPT ![p] = NoBatch]
    /\ UNCHANGED <<connected, users_collection, quizzes_collection, attempts_collection>>

\* create_quiz, lines 131-137: insert_one; the DuplicateKeyError of the
\* unique index on quiz_date is caught by the except clause.
QuizInsert(p) ==
    /\ pc[p] = "quiz_insert"
    /\ IF QuizKeyTaken(args[p].quiz_date)
       THEN /\ Return(p, Result(FALSE, "Error creating quiz: DuplicateKeyError"))
            /\ UNCHANGED quizzes_collection
       ELSE /\ quizzes_collection' =
                 Append(quizzes_collection,
                        QuizDoc(Len(quizzes_collection) + 1, args[p].quiz_date,
                                args[p].questions, args[p].now))
            /\ Return(p, Result(TRUE, "Quiz created successfully"))
    /\ UNCHANGED <<connected, users_collection, attempts_collection, calls, op, args, batch>>

\* -------------------------------------------------------- analytics
\* The handler goes on to step l with the documents read so far in hand.
GotoFound(p, l, docs) ==
    /\ pc' = [pc EXCEPT ![p] = l]
    /\ res' = [res EXCEPT ![p] = NoResult]
    /\ attempt' = [attempt EXCEPT ![p] = None]
    /\ found' = [found EXCEPT ![p] = docs]

\* The dates of the last seven days, in ascending order: the date of the
\* model is one of them.
DateList == <<"d1">>

\* find({"quiz_date": {"$in": date_list}}).sort("quiz_date", 1) on the
\* quizzes collection (with one quiz per date and one date, at most one
\* document, which the sort leaves as it is).
FindQuizzes(date_list) ==
    LET keep(doc) == \E i \in 1..Len(date_list) : date_list[i] = doc.quiz_date IN
    SelectSeq(quizzes_collection, keep)

\* find({"user_id": {"$in": user_ids}}) on the users collection.
FindUsers(user_ids) ==
    LET keep(doc) == doc.user_id \in user_ids IN
    SelectSeq(users_collection, keep)

\* user_lookup.get(user_id, {}).get('name', 'Unknown User')
UserName(users, user_id) ==
    IF \E k \in 1..Len(users) : users[k].user_id = user_id
    THEN users[CHOOSE k \in 1..Len(users) :
                  /\ users[k].user_id = user_id
                  /\ \A j \in (k + 1)..Len(users) : users[j].user_id # user_id].name
    ELSE "Unknown User"

\* a < b for two numbers num/den.
Less(a, b) == a.num * b.den < b.num * a.den

\* sum(scores) and sum(percentages) of a list of attempts.
RECURSIVE SumScores(_)
SumScores(attempts) ==
    IF attempts = <<>> THEN 0 ELSE Head(attempts).score + SumScores(Tail(attempts))

RECURSIVE SumPercentages(_)
SumPercentages(attempts) ==
    IF attempts = <<>> THEN ZeroPct
    ELSE LET x == Head(attempts).percentage
             y == SumPercentages(Tail(attempts)) IN
         Ratio(x.num * y.den + y.num * x.den, x.den * y.den)

\* round(sum(scores) / len(scores), 2), round(sum(percentages) / ..., 2)
AverageScore(attempts) == Round2(Ratio(SumScores(attempts), Len(attempts)))
AveragePercentage(attempts) ==
    LET t == SumPercentages(attempts) IN Round2(Ratio(t.num, t.den * Len(attempts)))

\* max(scores), min(scores)
HighestScore(attempts) ==
    CHOOSE x \in {attempts[k].score : k \in 1..Len(attempts)} :
        \A k \in 1..Len(attempts) : attempts[k].score <= x
LowestScore(attempts) ==
    CHOOSE x \in {attempts[k].score : k \in 1..Len(attempts)} :
        \A k \in 1..Len(attempts) : attempts[k].score >= x

\* sorted(attempts, key=lambda x: x['percentage'], reverse=True): by
\* falling percentage, attempts of equal percentage in their order.
RECURSIVE SortedByPercentage(_)
SortedByPercentage(attempts) ==
    IF attempts = <<>> THEN <<>>
    ELSE LET rest == SortedByPercentage(SubSeq(attempts, 1, Len(attempts) - 1))
             x == attempts[Len(attempts)]
             before(y) == ~Less(y.percentage, x.percentage)
             after(y) == Less(y.percentage, x.percentage) IN
         SelectSeq(rest, before) \o <<x>> \o SelectSeq(rest, after)

\* The entry of a performer or participant.
Performer(users, a) ==
    [name |-> UserName(users, a.user_id), score |-> a.score,
     total_questions |-> a.total_questions, percentage |-> a.percentage]

\* The top three performers of a day.
Top3(users, day_attempts) ==
    LET top_performers == SortedByPercentage(day_attempts)
        n == IF Len(top_performers) < 3 THEN Len(top_performers) ELSE 3 IN
    [k \in 1..n |-> Performer(users, top_performers[k])]

\* A completion rate in whole percents.
CompletionRateFloor(day_attempts, day_all_attempts) ==
    IF day_all_attempts # <<>>
    THEN Ratio((Len(day_attempts) * 100) \div Len(day_all_attempts), 1)
    ELSE ZeroPct

\* completion_rate of a day, line 77.
CompletionRate(day_attempts, day_all_attempts) ==
    IF day_all_attempts # <<>>
    THEN Round2(Ratio(Len(day_attempts) * 100, Len(day_all_attempts)))
    ELSE ZeroPct

\* The day_stat of one date of the window, lines 63-140 (without the name
\* of the weekday).
DayStat(quiz_date, quizzes, all_attempts, users) ==
    LET of_day(doc) == doc.quiz_date = quiz_date
        completed(doc) == doc.is_completed
        quiz_infos == SelectSeq(quizzes, of_day)
        day_all_attempts == SelectSeq(all_attempts, of_day)
        day_attempts == SelectSeq(day_all_attempts, completed)
        completion_rate == CompletionRate(day_attempts, day_all_attempts)
        empty == [date |-> quiz_date, quiz_title |-> "No quiz available",
                  total_questions |-> 0, participants_count |-> 0,
                  average_score |-> ZeroPct, average_percentage |-> ZeroPct,
                  highest_score |-> 0, lowest_score |-> 0,
                  top_3_performers |-> <<>>, completion_rate |-> completion_rate] IN
    IF quiz_infos # <<>> /\ day_attempts # <<>>
    THEN [date |-> quiz_date, quiz_title |-> "Quiz for",
          total_questions |-> quiz_infos[1].total_questions,
          participants_count |-> Len(day_attempts),
          average_score |-> AverageScore(day_attempts),
          average_percentage |-> AveragePercentage(day_attempts),
          highest_score |-> HighestScore(day_attempts),
          lowest_score |-> LowestScore(day_attempts),
          top_3_performers |-> Top3(users, day_attempts),
          completion_rate |-> completion_rate]
    ELSE IF quiz_infos # <<>>
    THEN [empty EXCEPT !.quiz_title = "Quiz for",
                       !.total_questions = quiz_infos[1].total_questions]
    ELSE empty

\* A find that marks the documents it returns.
StatsAttemptsMarking(p) ==
    /\ pc[p] = "stats_attempts"
    /\ LET in_window(doc) == \E i \in 1..Len(DateList) : DateList[i] = doc.quiz_date IN
       GotoFound(p, "stats_users",
                 [found[p] EXCEPT !.attempts = SelectSeq(attempts_collection, in_window)])
    /\ attempts_collection' =
          [k \in 1..Len(attempts_collection) |->
              [attempts_collection[k] EXCEPT !.auto_saved = TRUE]]
    /\ UNCHANGED <<connected, users_collection, quizzes_collection,
                   calls, op, args, batch>>

\* get_last_7_days_stats, lines 40-45: find for the attempts of the window.
StatsAttempts(p) ==
    /\ pc[p] = "stats_attempts"
    /\ LET in_window(doc) == \E i \in 1..Len(DateList) : DateList[i] = doc.quiz_date IN
       GotoFound(p, "stats_users",
                 [found[p] EXCEPT !.attempts = SelectSeq(attempts_collection, in_window)])
    /\ UNCHANGED <<connected, users_collection, quizzes_collection, attempts_collection,
                   calls, op, args, batch>>

\* get_last_7_days_stats, lines 45-149: find for the users of the
\* completed attempts, and the statistics.
StatsUsers(p) ==
    /\ pc[p] = "stats_users"
    /\ LET completed(doc) == doc.is_completed
           quizzes == found[p].quizzes
           all_attempts == found[p].attempts
           attempts == SelectSeq(all_attempts, completed)
           user_ids == {attempts[k].user_id : k \in 1..Len(attempts)}
           users == FindUsers(user_ids) IN
       Return(p, [Result(TRUE, "") EXCEPT !.stats =
                     [overall_stats |->
                         [total_participants |-> Cardinality(user_ids),
                          total_attempts |-> Len(attempts),
                          total_quizzes |-> Len(quizzes)],
                      daily_stats |->
                         [i \in 1..Len(DateList) |->
                             DayStat(DateList[i], quizzes, all_attempts, users)]]])
    /\ UNCHANGED <<connected, users_collection, quizzes_collection, attempts_collection,
                   calls, op, args, batch>>

\* get_quiz_analytics, lines 157-164: the connection check and find_one
\* for the quiz.
GetQuizAnalytics(p, quiz_date) ==
    /\ Free(p)
    /\ Receive(p, "get_quiz_analytics", [NoArgs EXCEPT !.quiz_date = quiz_date])
    /\ IF ~connected THEN Return(p, Result(FALSE, "Database not connected"))
       ELSE IF FindQuizOne(quiz_date) = None
       THEN Return(p, Result(FALSE, "No quiz found"))
       ELSE GotoFound(p, "analytics_attempts",
                      [NoFound EXCEPT !.quizzes = <<FindQuizOne(quiz_date)>>])
    /\ batch' = [batch EXCEPT ![p] = NoBatch]
    /\ UNCHANGED <<connected, users_collection, quizzes_collection, attempts_collection>>

\* A find for every attempt of the date, completed or not.
AnalyticsAttemptsAll(p) ==
    /\ pc[p] = "analytics_attempts"
    /\ LET keep(doc) == doc.quiz_date = args[p].quiz_date
           attempts == SelectSeq(attempts_collection, keep) IN
       IF attempts = <<>>
       THEN Return(p, [Result(TRUE, "No completed attempts found") EXCEPT !.stats =
                          [quiz_date |-> args[p].quiz_date,
                           total_questions |-> found[p].quizzes[1].total_questions,
                           participants_count |-> 0]])
       ELSE GotoFound(p, "analytics_users", [found[p] EXCEPT !.attempts = attempts])
    /\ UNCHANGED <<connected, users_collection, quizzes_collection, attempts_collection,
                   calls, op, args, batch>>

\* get_quiz_analytics, lines 167-178: find for the completed attempts of
\* the date, and the result when there is none.
AnalyticsAttempts(p) ==
    /\ pc[p] = "analytics_attempts"
    /\ LET keep(doc) == doc.quiz_date = args[p].quiz_date /\ doc.is_completed
           attempts == SelectSeq(attempts_collection, keep) IN
       IF attempts = <<>>
       THEN Return(p, [Result(TRUE, "No completed attempts found") EXCEPT !.stats =
                          [quiz_date |-> args[p].quiz_date,
                           total_questions |-> found[p].quizzes[1].total_questions,
                           participants_count |-> 0]])
       ELSE GotoFound(p, "analytics_users", [found[p] EXCEPT !.attempts = attempts])
    /\ UNCHANGED <<connected, users_collection, quizzes_collection, attempts_collection,
                   calls, op, args, batch>>

\* Five bands whose limits fall in the lower band.
ScoreRangesLow(attempts) ==
    LET count(lo, hi) ==
            Cardinality({k \in 1..Len(attempts) :
                /\ attempts[k].percentage.num > lo * attempts[k].percentage.den
                /\ attempts[k].percentage.num <= hi * attempts[k].percentage.den}) IN
    <<Cardinality({k \in 1..Len(attempts) :
          attempts[k].percentage.num > 90 * attempts[k].percentage.den}),
      count(80, 90), count(70, 80), count(60, 70),
      Cardinality({k \in 1..Len(attempts) :
          attempts[k].percentage.num <= 60 * attempts[k].percentage.den})>>

\* The five bands of score_distribution, lines 192-198, from the highest.
ScoreRanges(attempts) ==
    LET count(lo, hi) ==
            Cardinality({k \in 1..Len(attempts) :
                /\ attempts[k].percentage.num >= lo * attempts[k].percentage.den
                /\ attempts[k].percentage.num < hi * attempts[k].percentage.den}) IN
    <<Cardinality({k \in 1..Len(attempts) :
          attempts[k].percentage.num >= 90 * attempts[k].percentage.den}),
      count(80, 90), count(70, 80), count(60, 70),
      Cardinality({k \in 1..Len(attempts) :
          attempts[k].percentage.num < 60 * attempts[k].percentage.den})>>

\* A ranking in which attempts of equal percentage share a rank.
AllParticipantsTied(users, attempts) ==
    LET ranked == SortedByPercentage(attempts) IN
    [k \in 1..Len(ranked) |->
        [rank |-> 1 + Cardinality({j \in 1..Len(ranked) :
                                      Less(ranked[k].percentage, ranked[j].percentage)}),
         name |-> UserName(users, ranked[k].user_id),
         score |-> ranked[k].score, total_questions |-> ranked[k].total_questions,
         percentage |-> ranked[k].percentage, completed_at |-> ranked[k].completed_at]]

\* all_participants, lines 201-212: the attempts by falling percentage,
\* each with its rank.
AllParticipants(users, attempts) ==
    LET ranked == SortedByPercentage(attempts) IN
    [k \in 1..Len(ranked) |->
        [rank |-> k, name |-> UserName(users, ranked[k].user_id),
         score |-> ranked[k].score, total_questions |-> ranked[k].total_questions,
         percentage |-> ranked[k].percentage, completed_at |-> ranked[k].completed_at]]

\* get_quiz_analytics, lines 181-225: find for the users of the attempts,
\* and the statistics.
AnalyticsUsers(p) ==
    /\ pc[p] = "analytics_users"
    /\ LET attempts == found[p].attempts
           users == FindUsers({attempts[k].user_id : k \in 1..Len(attempts)}) IN
       Return(p, [Result(TRUE, "") EXCEPT !.stats =
                     [quiz_date |-> args[p].quiz_date,
                      total_questions |-> found[p].quizzes[1].total_questions,
                      participants_count |-> Len(attempts),
                      average_score |-> AverageScore(attempts),
                      average_percentage |-> AveragePercentage(attempts),
                      highest_score |-> HighestScore(attempts),
                      lowest_score |-> LowestScore(attempts),
                      score_distribution |-> ScoreRanges(attempts),
                      all_participants |-> AllParticipants(users, attempts)]])
    /\ UNCHANGED <<connected, users_collection, quizzes_collection, attempts_collection,
                   calls, op, args, batch>>

\* A get_last_7_days_stats without the connection check of lines 20-21.
GetLast7DaysStatsUnchecked(p) ==
    /\ Free(p)
    /\ Receive(p, "get_last_7_days_stats", NoArgs)
    /\ GotoFound(p, "stats_attempts", [NoFound EXCEPT !.quizzes = FindQuizzes(DateList)])
    /\ batch' = [batch EXCEPT ![p] = NoBatch]
    /\ UNCHANGED <<connected, users_collection, quizzes_collection, attempts_collection>>

\* get_last_7_days_stats, lines 20-37: the connection check and find for
\* the quizzes of the window.
GetLast7DaysStats(p) ==
    /\ Free(p)
    /\ Receive(p, "get_last_7_days_stats", NoArgs)
    /\ IF ~connected THEN Return(p, Result(FALSE, "Database not connected"))
       ELSE GotoFound(p, "stats_attempts", [NoFound EXCEPT !.quizzes = FindQuizzes(DateList)])
    /\ batch' = [batch EXCEPT ![p] = NoBatch]
    /\ UNCHANGED <<connected, users_collection, quizzes_collection, attempts_collection>>

\* ------------------------------------------------------------- system
\* The question indices and options the clients of save_answer send.
QuestionIndices == {PyInt(i) : i \in 0..MaxQuestions}
SelectedAnswers == {PyStr(k) : k \in OptionKeys}

Next ==
    \E p \in Procs :
        \/ \E u \in Users, d \in Dates :
              \/ CanAttemptQuiz(p, "can_user_attempt_quiz", u, d)
              \/ CanAttemptQuiz(p, "start_quiz_attempt", u, d)
              \/ SubmitQuiz(p, u, d)
              \/ \E q \in QuestionIndices, s \in SelectedAnswers : SaveAnswer(p, u, d, q, s)
              \/ \E b \in Payloads : SaveProgress(p, u, d, b)
        \/ \E d \in Dates, qs \in QuizPayloads : CreateQuiz(p, d, qs)
        \/ \E d \in Dates : GetQuizAnalytics(p, d)
        \/ GetLast7DaysStats(p)
        \/ AnalyticsAttempts(p)
        \/ AnalyticsUsers(p)
        \/ StatsAttempts(p)
        \/ StatsUsers(p)
        \/ CanAttemptAttempt(p)
        \/ StartExisting(p)
        \/ StartQuiz(p)
        \/ StartInsert(p)
        \/ AnswerUpdate(p)
        \/ ProgressEntry(p)
        \/ SubmitScore(p)
        \/ SubmitUpdate(p)
        \/ QuizInsert(p)

Spec == Init /\ [][Next]_vars

\* ---------------------------------------------------------- scoring
\* calculate_score by itself, on every answer key and answers array of
\* bounded size.  The keys are those of the questions lists of length
\* <= MaxKey, with every choice of correct options.
KeyQuestions ==
    {[i \in 1..Len(k) |-> GoodQuestion(k[i])] :
        k \in UNION {[1..n -> OptionKeys] : n \in 0..MaxKey}}

\* The answers arrays: at most MaxAnswers records for distinct question
\* indices 0..MaxKey (the last one beyond every key), none scored yet.
AnswerArrays ==
    {[k \in 1..Len(b) |-> [question_index |-> PyInt(b[k][1]),
                           selected_answer |-> PyStr(b[k][2]),
                           is_correct |-> PyNone, answered_at |-> k]] :
        b \in {c \in UNION {[1..n -> (0..MaxKey) \X OptionKeys] : n \in 0..MaxAnswers} :
                 \A i, j \in 1..Len(c) : i # j => c[i][1] # c[j][1]}}

\* An attempt in progress with these answers, and a key, in hand.
ScoreInit ==
    /\ connected = TRUE
    /\ users_collection = Directory
    /\ quizzes_collection = <<>>
    /\ attempts_collection = <<>>
    /\ calls = 0
    /\ pc = [p \in Procs |-> "idle"]
    /\ op = [p \in Procs |-> ""]
    /\ \E questions \in KeyQuestions :
          args = [p \in Procs |-> [NoArgs EXCEPT !.questions = questions]]
    /\ \E answers \in AnswerArrays :
          attempt = [p \in Procs |-> [NewAttempt("u1", "d1", 1) EXCEPT !.answers = answers]]
    /\ batch = [p \in Procs |-> NoBatch]
    /\ found = [p \in Procs |-> NoFound]
    /\ res = [p \in Procs |-> NoResult]

\* The answer key of the questions in hand.
Key(p) == CorrectAnswers([questions |-> args[p].questions])

\* attempt.calculate_score(correct_answers): the attempt afterwards and
\* the dict returned.
Score(p) ==
    /\ pc[p] = "idle"
    /\ LET scored == CalculateScore(attempt[p], Key(p)) IN
       /\ attempt' = [attempt EXCEPT ![p] = scored]
       /\ res' = [res EXCEPT ![p] = [Result(TRUE, "") EXCEPT
                                        !.score_result = ScoreResult(scored)]]
    /\ pc' = [pc EXCEPT ![p] = "done"]
    /\ op' = [op EXCEPT ![p] = "calculate_score"]
    /\ UNCHANGED <<connected, users_collection, quizzes_collection, attempts_collection, calls,
                   args, batch, found>>

ScoreNext == \E p \in Procs : Score(p)

ScoreSpec == ScoreInit /\ [][ScoreNext]_vars

\* ----------------------------------------------------------- uploads
\* create_quiz by itself, on every questions list of bounded length.  The
\* question dicts: with or without 'question'; 'options' missing, no dict,
\* or a dict of none, one or two keys; 'answer' missing, an option key, or
\* "C", which is none.
QuestionShapes ==
    {Question(hq, TRUE, TRUE, o, ha, a) :
        hq \in BOOLEAN, o \in {{}, {"A"}, {"A", "B"}},
        ha \in {TRUE}, a \in {"A", "C"}}
    \cup {Question(hq, TRUE, TRUE, o, FALSE, "") :
        hq \in BOOLEAN, o \in {{}, {"A"}, {"A", "B"}}}
    \cup {Question(hq, ho, FALSE, {}, ha, a) :
        hq \in BOOLEAN, ho \in BOOLEAN, ha \in {TRUE}, a \in {"A", "C"}}
    \cup {Question(hq, ho, FALSE, {}, FALSE, "") : hq \in BOOLEAN, ho \in BOOLEAN}

UploadPayloads == UNION {[1..n -> QuestionShapes] : n \in 0..MaxQuestions}

\* quiz_data['quiz_date']: a date, or the empty string.
UploadDates == Dates \cup {""}

\* The uploaded quiz_data is in hand.
UploadInit ==
    /\ connected \in BOOLEAN
    /\ users_collection = Directory
    /\ quizzes_collection = <<>>
    /\ attempts_collection = <<>>
    /\ calls = 0
    /\ pc = [p \in Procs |-> "idle"]
    /\ op = [p \in Procs |-> ""]
    /\ \E d \in UploadDates, qs \in UploadPayloads :
          args = [p \in Procs |-> [NoArgs EXCEPT !.quiz_date = d, !.questions = qs]]
    /\ attempt = [p \in Procs |-> None]
    /\ batch = [p \in Procs |-> NoBatch]
    /\ found = [p \in Procs |-> NoFound]
    /\ res = [p \in Procs |-> NoResult]

UploadNext ==
    \E p \in Procs :
        \/ CreateQuiz(p, args[p].quiz_date, args[p].questions)
        \/ QuizInsert(p)

UploadSpec == UploadInit /\ [][UploadNext]_vars

\* ------------------------------------------------- analytics by itself
\* The analytics calls on the stores the lifecycle leaves behind, with
\* two more requests to come.  The users who may have an attempt:
StatUsers == <<"u1", "u2", "u3">>

\* The quiz of the date in these stores.
StatQuiz == QuizDoc(1, "d1", AltQuestions(MaxQuestions), 1)

\* The answers a user saved who answered the first `right` questions of
\* the quiz with the option of the key and the others with another one.
RECURSIVE SavedAnswers(_, _)
SavedAnswers(right, i) ==
    IF i = 0 THEN <<>>
    ELSE LET correct == StatQuiz.questions[i].answer
             other == CHOOSE k \in OptionKeys : k # correct IN
         AddAnswer(SavedAnswers(right, i - 1), PyInt(i - 1),
                   PyStr(IF i <= right THEN correct ELSE other), 1)

\* What a user has done: nothing, started, or submitted with a score.
Absent == -2
Started == -1
Progress == {Absent, Started} \cup (0..MaxQuestions)

\* The attempt document of a user by what the user has done.
StoredAttempt(id, user_id, done) ==
    LET started == [NewAttempt(user_id, "d1", 1) EXCEPT
                       !.total_questions = GetTotalQuestions(StatQuiz)]
        answered == [started EXCEPT !.answers = SavedAnswers(done, Len(StatQuiz.questions))]
        completed == CompleteAttempt(CalculateScore(answered, CorrectAnswers(StatQuiz)), 1) IN
    IF done = Started THEN ToDict(started, id)
    ELSE ToDict([completed EXCEPT !.answers = GetAnswersSummary(completed),
                                  !.auto_saved = TRUE], id)

\* The attempts collection when the first i users have done `done`.
RECURSIVE StoredAttempts(_, _)
StoredAttempts(done, i) ==
    IF i = 0 THEN <<>>
    ELSE LET before == StoredAttempts(done, i - 1) IN
         IF done[i] = Absent THEN before
         ELSE Append(before, StoredAttempt(Len(before) + 1, StatUsers[i], done[i]))

AnalyticsInit ==
    /\ connected = TRUE
    /\ users_collection = [i \in 1..Len(StatUsers) |-> UserDoc(StatUsers[i])]
    /\ \/ /\ quizzes_collection = <<>>
          /\ attempts_collection = <<>>
       \/ /\ quizzes_collection = <<StatQuiz>>
          /\ \E done \in [1..Len(StatUsers) -> Progress] :
                attempts_collection = StoredAttempts(done, Len(StatUsers))
    /\ calls = MaxCalls - 2
    /\ pc = [p \in Procs |-> "idle"]
    /\ op = [p \in Procs |-> ""]
    /\ args = [p \in Procs |-> NoArgs]
    /\ attempt = [p \in Procs |-> None]
    /\ batch = [p \in Procs |-> NoBatch]
    /\ found = [p \in Procs |-> NoFound]
    /\ res = [p \in Procs |-> NoResult]

AnalyticsNext ==
    \E p \in Procs :
        \/ \E d \in Dates : GetQuizAnalytics(p, d)
        \/ GetLast7DaysStats(p)
        \/ AnalyticsAttempts(p)
        \/ AnalyticsUsers(p)
        \/ StatsAttempts(p)
        \/ StatsUsers(p)
        \/ \E u \in Users, d \in Dates :
              \/ CanAttemptQuiz(p, "start_quiz_attempt", u, d)
              \/ SubmitQuiz(p, u, d)
              \/ \E q \in QuestionIndices, s \in SelectedAnswers : SaveAnswer(p, u, d, q, s)
        \/ CanAttemptAttempt(p)
        \/ StartExisting(p)
        \/ StartQuiz(p)
        \/ StartInsert(p)
        \/ AnswerUpdate(p)
        \/ SubmitScore(p)
        \/ SubmitUpdate(p)

AnalyticsSpec == AnalyticsInit /\ [][AnalyticsNext]_vars

\* -------------------------------------------- quiz analytics by itself
\* get_quiz_analytics on a quiz long enough for percentages to fall on the
\* limits of the bands: with MaxScore = 10 questions the scores 6, 7, 8
\* and 9 give 60, 70, 80 and 90.  (score / total * 100 in floating point
\* lies in the same band as the exact quotient for every total this
\* small.)
BandQuiz == QuizDoc(1, "d1", AltQuestions(MaxScore), 1)

\* The answers of a user who answered the first `right` of the first i
\* questions with the option of the key and the others with another one.
RECURSIVE BandAnswers(_, _)
BandAnswers(right, i) ==
    IF i = 0 THEN <<>>
    ELSE LET correct == BandQuiz.questions[i].answer
             other == CHOOSE k \in OptionKeys : k # correct IN
         AddAnswer(BandAnswers(right, i - 1), PyInt(i - 1),
                   PyStr(IF i <= right THEN correct ELSE other), 1)

\* What a user has done: nothing, started, or submitted with a score.
BandProgress == {Absent, Started} \cup (0..MaxScore)

\* The attempt document of a user by what the user has done.
BandAttempt(id, user_id, done) ==
    LET started == [NewAttempt(user_id, "d1", 1) EXCEPT
                       !.total_questions = GetTotalQuestions(BandQuiz)]
        answered == [started EXCEPT !.answers = BandAnswers(done, Len(BandQuiz.questions))]
        completed == CompleteAttempt(CalculateScore(answered, CorrectAnswers(BandQuiz)), 1) IN
    IF done = Started THEN ToDict(started, id)
    ELSE ToDict([completed EXCEPT !.answers = GetAnswersSummary(completed),
                                  !.auto_saved = TRUE], id)

\* The attempts collection when the first i users have done `done`.
RECURSIVE BandAttempts(_, _)
BandAttempts(done, i) ==
    IF i = 0 THEN <<>>
    ELSE LET before == BandAttempts(done, i - 1) IN
         IF done[i] = Absent THEN before
         ELSE Append(before, BandAttempt(Len(before) + 1, StatUsers[i], done[i]))

BandInit ==
    /\ connected = TRUE
    /\ users_collection = [i \in 1..Len(StatUsers) |-> UserDoc(StatUsers[i])]
    /\ quizzes_collection = <<BandQuiz>>
    /\ \E done \in [1..Len(StatUsers) -> BandProgress] :
          attempts_collection = BandAttempts(done, Len(StatUsers))
    /\ calls = MaxCalls - 1
    /\ pc = [p \in Procs |-> "idle"]
    /\ op = [p \in Procs |-> ""]
    /\ args = [p \in Procs |-> NoArgs]
    /\ attempt = [p \in Procs |-> None]
    /\ batch = [p \in Procs |-> NoBatch]
    /\ found = [p \in Procs |-> NoFound]
    /\ res = [p \in Procs |-> NoResult]

BandNext ==
    \E p \in Procs :
        \/ \E d \in Dates : GetQuizAnalytics(p, d)
        \/ AnalyticsAttempts(p)
        \/ AnalyticsUsers(p)

BandSpec == BandInit /\ [][BandNext]_vars

\* ---------------------------------------------------------- read faults
\* The lifecycle when a find_one may raise (the connection is lost after
\* is_connected() answered True).  get_quiz_by_date and get_user_attempt
\* catch the exception, print it and fall through to return None (lines
\* 28-35 and 144-155), so each step below is the step of the handler with
\* None for what it reads.
RaisedRead == None

\* can_user_attempt_quiz, lines 159-165, get_quiz_by_date raising.
CanAttemptQuizRaised(p, o, user_id, quiz_date) ==
    /\ Free(p)
    /\ connected
    /\ Receive(p, o, [NoArgs EXCEPT !.user_id = user_id, !.quiz_date = quiz_date])
    /\ IF QuizMissing(RaisedRead)
       THEN Return(p, Result(FALSE, "No quiz available for date"))
       ELSE Goto(p, "can_attempt", None)
    /\ UNCHANGED <<connected, users_collection, quizzes_collection, attempts_collection, batch>>

\* can_user_attempt_quiz, lines 168-172, get_user_attempt raising.
CanAttemptAttemptRaised(p) ==
    /\ pc[p] = "can_attempt"
    /\ connected
    /\ LET existing_attempt == RaisedRead IN
       IF AlreadyCompleted(existing_attempt)
       THEN Return(p, Result(FALSE, "You have already completed this quiz"))
       ELSE IF op[p] = "can_user_attempt_quiz"
       THEN Return(p, Result(TRUE, "User can attempt quiz"))
       ELSE Goto(p, "start_existing", None)
    /\ UNCHANGED <<connected, users_collection, quizzes_collection, attempts_collection, calls,
                   op, args, batch>>

\* start_quiz_attempt, lines 185-192, get_user_attempt raising.
StartExistingRaised(p) ==
    /\ pc[p] = "start_existing"
    /\ connected
    /\ LET existing_attempt == RaisedRead IN
       IF Resumable(existing_attempt)
       THEN Return(p, [Result(TRUE, "Resuming existing attempt")
                          EXCEPT !.attempt = existing_attempt])
       ELSE Goto(p, "start_quiz",
                 NewAttempt(args[p].user_id, args[p].quiz_date, args[p].now))
    /\ UNCHANGED <<connected, users_collection, quizzes_collection, attempts_collection, calls,
                   op, args, batch>>

\* start_quiz_attempt, lines 195-197, get_quiz_by_date raising:
\* total_questions keeps the 0 of __init__.
StartQuizRaised(p) ==
    /\ pc[p] = "start_quiz"
    /\ connected
    /\ LET quiz == RaisedRead IN
       Goto(p, "start_insert",
            IF quiz # None
            THEN [attempt[p] EXCEPT !.total_questions = GetTotalQuestions(quiz)]
            ELSE attempt[p])
    /\ UNCHANGED <<connected, users_collection, quizzes_collection, attempts_collection, calls,
                   op, args, batch>>

\* save_answer, lines 215-217, get_user_attempt raising.
SaveAnswerRaised(p, user_id, quiz_date, question_index, selected_answer) ==
    /\ Free(p)
    /\ connected
    /\ Receive(p, "save_answer",
               [NoArgs EXCEPT !.user_id = user_id, !.quiz_date = quiz_date,
                              !.question_index = question_index,
                              !.selected_answer = selected_answer])
    /\ LET a == RaisedRead IN
       IF a = None THEN Return(p, Result(FALSE, "No active attempt found"))
       ELSE Goto(p, "answer_update", a)
    /\ batch' = [batch EXCEPT ![p] = NoBatch]
    /\ UNCHANGED <<connected, users_collection, quizzes_collection, attempts_collection>>

\* submit_quiz, lines 254-256, get_user_attempt raising.
SubmitQuizRaised(p, user_id, quiz_date) ==
    /\ Free(p)
    /\ connected
    /\ Receive(p, "submit_quiz",
               [NoArgs EXCEPT !.user_id = user_id, !.quiz_date = quiz_date])
    /\ LET a == RaisedRead IN
       IF a = None THEN Return(p, Result(FALSE, "No active attempt found"))
       ELSE Goto(p, "submit_score", a)
    /\ batch' = [batch EXCEPT ![p] = NoBatch]
    /\ UNCHANGED <<connected, users_collection, quizzes_collection, attempts_collection>>

\* submit_quiz, lines 262-264, get_quiz_by_date raising.
SubmitScoreRaised(p) ==
    /\ pc[p] = "submit_score"
    /\ connected
    /\ LET quiz == RaisedRead IN
       IF quiz = None THEN Return(p, Result(FALSE, "Quiz not found"))
       ELSE Goto(p, "submit_update",
                 CompleteAttempt(CalculateScore(attempt[p], CorrectAnswers(quiz)),
                                 args[p].now))
    /\ UNCHANGED <<connected, users_collection, quizzes_collection, attempts_collection, calls,
                   op, args, batch>>

\* The lifecycle on the stores of AnalyticsInit, every read raising or not.
FaultNext ==
    \E p \in Procs :
        \/ \E u \in Users, d \in Dates :
              \/ CanAttemptQuiz(p, "can_user_attempt_quiz", u, d)
              \/ CanAttemptQuiz(p, "start_quiz_attempt", u, d)
              \/ SubmitQuiz(p, u, d)
              \/ \E q \in QuestionIndices, s \in SelectedAnswers : SaveAnswer(p, u, d, q, s)
              \/ CanAttemptQuizRaised(p, "can_user_attempt_quiz", u, d)
              \/ CanAttemptQuizRaised(p, "start_quiz_attempt", u, d)
              \/ SubmitQuizRaised(p, u, d)
              \/ \E q \in QuestionIndices, s \in SelectedAnswers :
                    SaveAnswerRaised(p, u, d, q, s)
        \/ CanAttemptAttempt(p)
        \/ StartExisting(p)
        \/ StartQuiz(p)
        \/ StartInsert(p)
        \/ AnswerUpdate(p)
        \/ SubmitScore(p)
        \/ SubmitUpdate(p)
        \/ CanAttemptAttemptRaised(p)
        \/ StartExistingRaised(p)
        \/ StartQuizRaised(p)
        \/ SubmitScoreRaised(p)

FaultSpec == AnalyticsInit /\ [][FaultNext]_vars

\* ---------------------------------------------------------- vocabulary
\* The stored attempts of a pair.
StoredFor(user_id, quiz_date) ==
    {k \in 1..Len(attempts_collection) :
        /\ attempts_collection[k].user_id = user_id
        /\ attempts_collection[k].quiz_date = quiz_date}

\* The pair has an attempt in progress / a completed attempt in the store.
InProgress(user_id, quiz_date) ==
    \E k \in StoredFor(user_id, quiz_date) : ~attempts_collection[k].is_completed
Completed(user_id, quiz_date) ==
    \E k \in StoredFor(user_id, quiz_date) : attempts_collection[k].is_completed

\* The question index and the answer of the save_answer call handler p is
\* in: its arguments, or the entry of the payload the loop is at.
SavingIndex(p) ==
    IF op[p] = "save_progress" THEN QIndex(batch[p].todo[1][1])
    ELSE args[p].question_index
SavingAnswer(p) ==
    IF op[p] = "save_progress" THEN batch[p].todo[1][2] ELSE args[p].selected_answer

\* The entries the save-progress loop of handler p has counted as saved.
SavedCount(p) == IF pc[p] = "done" THEN res[p].saved_count ELSE batch[p].saved_count

\* The catalog has a quiz for the date.
QuizExists(quiz_date) ==
    \E k \in 1..Len(quizzes_collection) : quizzes_collection[k].quiz_date = quiz_date

\* This step is handler p's: it receives a request or takes a step of one.
Local(p) == <<pc[p], op[p], args[p], attempt[p], batch[p], found[p], res[p]>>
Acts(p) == Local(p)' # Local(p)

\* This step is handler p receiving a request for operation o.
Receives(p, o) == Idle(p) /\ calls' = calls + 1 /\ args'[p].now = calls' /\ op'[p] = o

\* This step is handler p returning from operation o.
Returns(p, o) == Acts(p) /\ op'[p] = o /\ pc'[p] = "done"

\* ------------------------------------------------------------- claims
\* C1: in every reachable state the attempts collection holds at most one
\* document for each (user_id, quiz_date) pair.
C1_OneAttemptPerPair ==
    \A i, j \in 1..Len(attempts_collection) :
        (/\ attempts_collection[i].user_id = attempts_collection[j].user_id
         /\ attempts_collection[i].quiz_date = attempts_collection[j].quiz_date)
        => i = j

\* Two start calls raced for one pair: one attempt is stored and the
\* second insert was refused.
C1_Witness ==
    /\ \E p \in Procs : res[p].message = "Error starting attempt: DuplicateKeyError"
    /\ Len(attempts_collection) >= 1

\* C2: a start call that reaches insert_one when another start call has
\* stored the pair's attempt meanwhile (the attempt is in progress) returns
\* success with that attempt, never a failure.
C2_RaceLoserResumes ==
    [][\A p \in Procs :
        (/\ pc[p] = "start_insert" /\ Acts(p)
         /\ InProgress(args[p].user_id, args[p].quiz_date))
        => /\ res'[p].ok
           /\ res'[p].attempt # None
           /\ Cardinality(StoredFor(args[p].user_id, args[p].quiz_date)') = 1]_vars

\* C3: an update of save_answer that reaches the store after submit has
\* stored is_completed = True reports no success and leaves the stored
\* answers as they are.
C3_NoSaveAfterCompletion ==
    [][\A p \in Procs :
        (/\ pc[p] = "answer_update" /\ Acts(p)
         /\ \E k \in MatchedById(attempt[p].id) : attempts_collection[k].is_completed)
        => /\ attempts_collection' = attempts_collection
           /\ ~(pc'[p] = "done" /\ op[p] = "save_answer" /\ res'[p].ok)
           /\ op[p] = "save_progress" => SavedCount(p)' = SavedCount(p)]_vars

\* C4: of the submit calls on one attempt at most one returns success.
C4_FinalizedOnce ==
    \A p, q \in Procs :
        (/\ p # q
         /\ pc[p] = "done" /\ pc[q] = "done"
         /\ op[p] = "submit_quiz" /\ op[q] = "submit_quiz"
         /\ args[p].user_id = args[q].user_id
         /\ args[p].quiz_date = args[q].quiz_date)
        => ~(res[p].ok /\ res[q].ok)

\* C5: a submit call received when the pair's attempt is stored as
\* completed returns (False, "Quiz already completed") at once and leaves
\* the attempts collection as it is.
C5_SubmitAfterCompletionRejected ==
    [][\A p \in Procs :
        (/\ Receives(p, "submit_quiz")
         /\ Completed(args'[p].user_id, args'[p].quiz_date))
        => /\ pc'[p] = "done"
           /\ res'[p] = Result(FALSE, "Quiz already completed")
           /\ attempts_collection' = attempts_collection]_vars

\* A submit call was refused on a completed attempt.
C5_Witness ==
    \E p \in Procs :
        /\ pc[p] = "done" /\ op[p] = "submit_quiz"
        /\ res[p].message = "Quiz already completed"
        /\ Completed(args[p].user_id, args[p].quiz_date)

\* C6: no step removes a stored attempt, gives it to another pair, or
\* takes is_completed back: Absent -> InProgress -> Completed only.
C6_LifecycleMovesForward ==
    [][/\ Len(attempts_collection') >= Len(attempts_collection)
       /\ \A k \in 1..Len(attempts_collection) :
            /\ attempts_collection'[k].id = attempts_collection[k].id
            /\ attempts_collection'[k].user_id = attempts_collection[k].user_id
            /\ attempts_collection'[k].quiz_date = attempts_collection[k].quiz_date
            /\ attempts_collection[k].is_completed
                  => attempts_collection'[k].is_completed]_vars

\* save_answer wrote to an attempt that submit had completed, and the
\* attempt is still completed.
C6_Witness ==
    \E k \in 1..Len(attempts_collection) :
        /\ attempts_collection[k].is_completed
        /\ \E i \in 1..Len(attempts_collection[k].answers) :
              attempts_collection[k].answers[i].answered_at
                 > attempts_collection[k].completed_at

\* C7: with the store connected, can_user_attempt_quiz answers False
\* exactly when the date has no quiz or the pair's attempt is completed
\* (True with no attempt and with one in progress), and no step of it
\* changes a collection.
C7_CanAttemptVerdict ==
    [][\A p \in Procs :
        /\ (Acts(p) /\ op'[p] = "can_user_attempt_quiz")
              => /\ attempts_collection' = attempts_collection
                 /\ quizzes_collection' = quizzes_collection
        /\ (connected /\ Returns(p, "can_user_attempt_quiz"))
              => (res'[p].ok <=>
                    /\ QuizExists(args'[p].quiz_date)
                    /\ ~Completed(args'[p].user_id, args'[p].quiz_date))]_vars

\* can_user_attempt_quiz answered True for a pair with an attempt in
\* progress.
C7_Witness ==
    \E p \in Procs :
        /\ pc[p] = "done" /\ op[p] = "can_user_attempt_quiz" /\ res[p].ok
        /\ InProgress(args[p].user_id, args[p].quiz_date)

\* C8: start on a pair whose attempt is in progress passes the
\* can-attempt check, and at its own read returns success with the stored
\* attempt; none of these steps changes the attempts collection.
C8_StartResumes ==
    [][\A p \in Procs :
        (/\ Acts(p) /\ op'[p] = "start_quiz_attempt"
         /\ InProgress(args'[p].user_id, args'[p].quiz_date)
         /\ (Receives(p, "start_quiz_attempt")
             \/ pc[p] \in {"can_attempt", "start_existing"}))
        => /\ attempts_collection' = attempts_collection
           /\ Receives(p, "start_quiz_attempt") => pc'[p] = "can_attempt"
           /\ pc[p] = "can_attempt" => pc'[p] = "start_existing"
           /\ pc[p] = "start_existing"
                 => /\ pc'[p] = "done"
                    /\ res'[p].ok
                    /\ res'[p].attempt =
                          FromDict(FindAttemptOne(args[p].user_id, args[p].quiz_date))]_vars

\* start resumed an attempt that already holds an answer.
C8_Witness ==
    \E p \in Procs :
        /\ pc[p] = "done" /\ op[p] = "start_quiz_attempt" /\ res[p].ok
        /\ res[p].message = "Resuming existing attempt"
        /\ res[p].attempt.answers # <<>>

\* C9: when the date has no quiz or the pair's attempt is completed, start
\* returns a failure with no attempt as soon as its can-attempt check
\* reads that, and no step of start up to there changes the attempts
\* collection.
C9_StartRefused ==
    [][\A p \in Procs :
        (/\ Acts(p) /\ op'[p] = "start_quiz_attempt" /\ connected
         /\ (Receives(p, "start_quiz_attempt") \/ pc[p] = "can_attempt"))
        => /\ attempts_collection' = attempts_collection
           /\ ((\/ Receives(p, "start_quiz_attempt") /\ ~QuizExists(args'[p].quiz_date)
                \/ pc[p] = "can_attempt" /\ Completed(args[p].user_id, args[p].quiz_date))
               => /\ pc'[p] = "done"
                  /\ ~res'[p].ok
                  /\ res'[p].attempt = None)]_vars

\* start was refused on a completed attempt.
C9_Witness ==
    \E p \in Procs :
        /\ pc[p] = "done" /\ op[p] = "start_quiz_attempt"
        /\ res[p].message = "You have already completed this quiz"
        /\ res[p].attempt = None
        /\ Completed(args[p].user_id, args[p].quiz_date)

\* The answers hold at most one record per question_index.
OnePerIndex(answers) ==
    \A i, j \in 1..Len(answers) :
        answers[i].question_index = answers[j].question_index => i = j

\* C10: every stored attempt holds at most one answer per question_index,
\* and so do the answers a save_answer is about to write, in which the
\* record of the saved index carries the selected answer.
C10_OneAnswerPerIndex ==
    /\ \A k \in 1..Len(attempts_collection) : OnePerIndex(attempts_collection[k].answers)
    /\ \A p \in Procs :
         pc[p] = "answer_update"
         => /\ OnePerIndex(attempt[p].answers)
            /\ \E i \in 1..Len(attempt[p].answers) :
                  /\ attempt[p].answers[i].question_index = SavingIndex(p)
                  /\ attempt[p].answers[i].selected_answer = SavingAnswer(p)

\* A save_answer is about to replace an answer in place: the stored
\* attempt holds another selected answer for the index, at the position
\* where the answers to be written hold the new one.
C10_Witness ==
    \E p \in Procs :
        /\ pc[p] = "answer_update"
        /\ \E k \in MatchedById(attempt[p].id) :
              /\ Len(attempt[p].answers) = Len(attempts_collection[k].answers)
              /\ \E i \in 1..Len(attempt[p].answers) :
                    /\ attempts_collection[k].answers[i].question_index = SavingIndex(p)
                    /\ attempts_collection[k].answers[i].selected_answer # SavingAnswer(p)
                    /\ attempt[p].answers[i].selected_answer = SavingAnswer(p)

\* The (question_index, selected_answer) pairs of an answers array, in
\* its order.
Pairs(answers) ==
    [k \in 1..Len(answers) |-> <<answers[k].question_index, answers[k].selected_answer>>]

\* The stored attempt of the pair holds selected_answer for question_index.
Holds(user_id, quiz_date, question_index, selected_answer) ==
    \E k \in StoredFor(user_id, quiz_date) :
        \E i \in 1..Len(attempts_collection[k].answers) :
            /\ attempts_collection[k].answers[i].question_index = question_index
            /\ attempts_collection[k].answers[i].selected_answer = selected_answer

C12_SaveAnswerRefused ==
    [][\A p \in Procs :
        /\ (connected /\ Receives(p, "save_answer"))
           => /\ StoredFor(args'[p].user_id, args'[p].quiz_date) = {}
                    => /\ pc'[p] = "done"
                       /\ res'[p] = Result(FALSE, "No active attempt found")
                       /\ attempts_collection' = attempts_collection
              /\ Completed(args'[p].user_id, args'[p].quiz_date)
                    => /\ pc'[p] = "done"
                       /\ res'[p] = Result(FALSE, "Quiz already completed")
                       /\ attempts_collection' = attempts_collection
        /\ (Acts(p) /\ op'[p] = "save_answer")
           => Len(attempts_collection') = Len(attempts_collection)]_vars

\* save_answer was refused on a completed attempt.
C12_Witness ==
    \E p \in Procs :
        /\ pc[p] = "done" /\ op[p] = "save_answer"
        /\ res[p].message = "Quiz already completed"
        /\ Completed(args[p].user_id, args[p].quiz_date)

\* C13: the save-progress loop skips an entry whose key is no integer or
\* whose value is null: the turn of the loop at such an entry calls no
\* save_answer and counts nothing, and what a save_answer of the loop
\* writes is an answer for an integer question index.
C13_InvalidEntriesSkipped ==
    [][\A p \in Procs :
        /\ (/\ pc[p] = "progress_entry" /\ Acts(p)
            /\ \/ QIndex(batch[p].todo[1][1]).t # "int"
               \/ batch[p].todo[1][2] = PyNone)
           => /\ pc'[p] # "answer_update"
              /\ SavedCount(p)' = SavedCount(p)
        /\ (pc[p] = "answer_update" /\ Acts(p) /\ op[p] = "save_progress")
           => /\ SavingIndex(p).t = "int"
              /\ \A k \in 1..Len(attempts_collection') :
                    \A i \in 1..Len(attempts_collection'[k].answers) :
                       attempts_collection'[k].answers[i].question_index.t = "int"]_vars

\* The key indices answered with the option of the key.
Matches(correct_answers, answers) ==
    {i \in 1..Len(correct_answers) :
        \E k \in 1..Len(answers) :
            /\ answers[k].question_index = PyInt(i - 1)
            /\ answers[k].selected_answer = correct_answers[i]}

\* C14: after calculate_score, total_questions is the number of keys,
\* score is the number of key indices answered with the key's option, and
\* percentage is exactly 100 * score / total_questions, 0 for the empty
\* key; the dict returned has the same score and total and the percentage
\* rounded to two places.
C14_ScoreAndPercentage ==
    \A p \in Procs :
        pc[p] = "done" =>
            LET a == attempt[p]
                n == Len(Key(p))
                r == res[p].score_result IN
            /\ a.total_questions = n
            /\ a.score = Cardinality(Matches(Key(p), a.answers))
            /\ n = 0 => a.percentage = ZeroPct
            /\ n > 0 => /\ a.percentage.num * n = 100 * a.score * a.percentage.den
                        /\ a.percentage.den > 0
            /\ r.score = a.score /\ r.total_questions = n
            /\ r.percentage.den > 0
            /\ LET diff == r.percentage.num * a.percentage.den
                               - a.percentage.num * r.percentage.den IN
               /\ 200 * diff <= r.percentage.den * a.percentage.den
               /\ -200 * diff <= r.percentage.den * a.percentage.den
            /\ a.score = n /\ n > 0 => r.percentage = [num |-> 100, den |-> 1]
            /\ a.answers = <<>> => r.score = 0 /\ r.percentage = ZeroPct

\* A key of three questions or more was scored against all-correct
\* answers.
C14_Witness ==
    /\ pc["p1"] = "done" /\ pc["p2"] = "done"
    /\ Len(Key("p1")) >= 3
    /\ attempt["p1"].score = Len(Key("p1"))
    /\ res["p1"].score_result.percentage = [num |-> 100, den |-> 1]

\* C15: after every step the quizzes collection holds at most one quiz per
\* quiz_date and every quiz stored before the step is there as it was; a
\* create_quiz that meets a quiz of its date, at its find_one or at its
\* insert_one, returns a failure and stores nothing.
C15_OneQuizPerDate ==
    [][/\ \A i, j \in 1..Len(quizzes_collection') :
             quizzes_collection'[i].quiz_date = quizzes_collection'[j].quiz_date => i = j
       /\ Len(quizzes_collection') >= Len(quizzes_collection)
       /\ \A k \in 1..Len(quizzes_collection) :
             quizzes_collection'[k] = quizzes_collection[k]
       /\ \A p \in Procs :
             (/\ Receives(p, "create_quiz") \/ (pc[p] = "quiz_insert" /\ Acts(p))
              /\ QuizExists(args'[p].quiz_date))
             => /\ pc'[p] = "done"
                /\ ~res'[p].ok
                /\ quizzes_collection' = quizzes_collection]_vars

\* Two create_quiz calls raced for one date: one quiz is stored and the
\* second insert was refused.
C15_Witness ==
    /\ \E p \in Procs : /\ pc[p] = "done" /\ op[p] = "create_quiz"
                         /\ res[p].message = "Error creating quiz: DuplicateKeyError"
    /\ Len(quizzes_collection) = 1

\* The question meets the quiz invariant: options with two keys or more,
\* and an answer that is one of them.
GoodShape(question) ==
    /\ question.has_options /\ question.options_is_dict
    /\ Cardinality(question.options) >= 2
    /\ question.has_answer /\ question.answer \in question.options

\* The stored quiz meets the quiz invariant.
QuizInvariant(doc) ==
    /\ doc.total_questions = Len(doc.questions)
    /\ Len(doc.questions) >= 1
    /\ \A i \in 1..Len(doc.questions) : GoodShape(doc.questions[i])

\* The errors list has this error for question number n.
Reports(errors, n, message) == \E e \in 1..Len(errors) : errors[e] = <<n, message>>

\* C16: every stored quiz meets the quiz invariant; a create_quiz of a
\* questions list that does not (none, or a question not of good shape)
\* returns a failure and stores nothing, and its errors name every bad
\* question, with both errors for a question whose options are too few
\* and do not hold its answer.
C16_QuizInvariant ==
    [][/\ \A k \in 1..Len(quizzes_collection') : QuizInvariant(quizzes_collection'[k])
       /\ \A p \in Procs :
             LET qs == args'[p].questions
                 errors == res'[p].errors IN
             (/\ connected /\ Receives(p, "create_quiz")
              /\ \/ qs = <<>>
                 \/ \E i \in 1..Len(qs) : ~GoodShape(qs[i]))
             => /\ pc'[p] = "done" /\ ~res'[p].ok
                /\ quizzes_collection' = quizzes_collection
                /\ qs = <<>> => Reports(errors, 0, "Questions are required")
                /\ \A i \in 1..Len(qs) :
                      /\ ~GoodShape(qs[i]) => \E e \in 1..Len(errors) : errors[e][1] = i
                      /\ (/\ qs[i].has_options /\ qs[i].options_is_dict
                          /\ Cardinality(qs[i].options) < 2)
                         => Reports(errors, i, "Must have at least 2 options")
                      /\ (/\ qs[i].has_options /\ qs[i].options_is_dict
                          /\ qs[i].has_answer /\ qs[i].answer \notin qs[i].options)
                         => Reports(errors, i, "Answer must be one of the options")]_vars

\* A create_quiz was refused with errors for two questions, two of them
\* for the first.
C16_Witness ==
    \E p \in Procs :
        /\ pc[p] = "done" /\ op[p] = "create_quiz" /\ ~res[p].ok
        /\ quizzes_collection = <<>>
        /\ Reports(res[p].errors, 1, "Must have at least 2 options")
        /\ Reports(res[p].errors, 1, "Answer must be one of the options")
        /\ Reports(res[p].errors, 2, "Missing options")

\* The operations that check the connection first.
FailFast ==
    {"can_user_attempt_quiz", "start_quiz_attempt", "save_answer", "submit_quiz",
     "create_quiz", "get_last_7_days_stats", "get_quiz_analytics"}

\* C17: with the store not connected, each of these operations returns
\* the failure "Database not connected" in the step it is received, and
\* no step writes to a collection.
C17_StoreUnavailable ==
    [][~connected =>
        /\ quizzes_collection' = quizzes_collection
        /\ attempts_collection' = attempts_collection
        /\ \A p \in Procs : \A o \in FailFast :
              Receives(p, o) => /\ pc'[p] = "done"
                                /\ res'[p] = Result(FALSE, "Database not connected")]_vars

\* Without a connection a submit_quiz and an analytics call were refused.
C17_Witness ==
    /\ ~connected
    /\ \E p, q \in Procs :
          /\ pc[p] = "done" /\ op[p] = "submit_quiz"
          /\ res[p].message = "Database not connected"
          /\ pc[q] = "done" /\ op[q] = "get_last_7_days_stats"
          /\ res[q].message = "Database not connected"

\* The analytics operations.
Analytics == {"get_last_7_days_stats", "get_quiz_analytics"}

\* C18: no step of an analytics call changes the users, quizzes or
\* attempts collection, whatever the other handler is in the middle of.
C18_AnalyticsReadOnly ==
    [][\A p \in Procs :
        (Acts(p) /\ op'[p] \in Analytics)
        => /\ users_collection' = users_collection
           /\ quizzes_collection' = quizzes_collection
           /\ attempts_collection' = attempts_collection]_vars

\* get_last_7_days_stats has returned statistics of a completed attempt
\* and a submit_quiz received after it has returned before it: the
\* statistics miss the attempt this submit completed.
C18_Witness ==
    \E p, q \in Procs :
        /\ pc[p] = "done" /\ op[p] = "get_last_7_days_stats" /\ res[p].ok
        /\ res[p].stats.overall_stats.total_attempts >= 1
        /\ pc[q] = "done" /\ op[q] = "submit_quiz" /\ res[q].ok
        /\ args[p].now < args[q].now
        /\ res[p].stats.overall_stats.total_attempts
              < Cardinality({k \in 1..Len(attempts_collection) :
                                attempts_collection[k].is_completed})

\* Of the attempts get_last_7_days_stats has read, those of the date, and
\* the completed ones among them.
Opened(p, quiz_date) ==
    LET of_day(doc) == doc.quiz_date = quiz_date IN SelectSeq(found[p].attempts, of_day)
Submitted(p, quiz_date) ==
    LET completed(doc) == doc.is_completed IN SelectSeq(Opened(p, quiz_date), completed)

\* The quiz of the date is among the quizzes it has read.
HasQuiz(p, quiz_date) ==
    \E k \in 1..Len(found[p].quizzes) : found[p].quizzes[k].quiz_date = quiz_date

\* The entry of a date that has a quiz of n questions and no attempt.
NoAttemptsDay(quiz_date, n) ==
    [date |-> quiz_date, quiz_title |-> "Quiz for", total_questions |-> n,
     participants_count |-> 0, average_score |-> ZeroPct,
     average_percentage |-> ZeroPct, highest_score |-> 0, lowest_score |-> 0,
     top_3_performers |-> <<>>, completion_rate |-> ZeroPct]

\* C19: the entry of each date of a quiz reports how many attempts were
\* opened and how many of them submitted: its submitted count is the
\* number of completed attempts read, its average score is taken over
\* these, a date without attempts has the entry of zeros, and no date
\* with an attempt has that same entry (the entry tells the opened count
\* of one from that of none).
C19_OpenedAndSubmitted ==
    [][\A p \in Procs :
        (Returns(p, "get_last_7_days_stats") /\ res'[p].ok) =>
            \A i \in 1..Len(DateList) :
                LET e == res'[p].stats.daily_stats[i]
                    opened == Opened(p, DateList[i])
                    submitted == Submitted(p, DateList[i]) IN
                HasQuiz(p, DateList[i]) =>
                    /\ e.participants_count = Len(submitted)
                    /\ submitted # <<>> =>
                          e.average_score =
                             Round2(Ratio(SumScores(submitted), Len(submitted)))
                    /\ opened = <<>> => e = NoAttemptsDay(DateList[i], e.total_questions)
                    /\ e = NoAttemptsDay(DateList[i], e.total_questions) => opened = <<>>]_vars

\* C20 as stated: the completion rate of each date is exactly
\* submitted / opened * 100, 0 when nothing was opened.
C20_CompletionRateExact ==
    [][\A p \in Procs :
        (Returns(p, "get_last_7_days_stats") /\ res'[p].ok) =>
            \A i \in 1..Len(DateList) :
                LET rate == res'[p].stats.daily_stats[i].completion_rate
                    opened == Len(Opened(p, DateList[i]))
                    submitted == Len(Submitted(p, DateList[i])) IN
                /\ opened = 0 => rate = ZeroPct
                /\ opened > 0 => rate.num * opened = 100 * submitted * rate.den]_vars

\* C20: the completion rate of each date is submitted / opened * 100
\* rounded to two places (a multiple of 1/100 within 1/200 of it), 0 when
\* nothing was opened, and between 0 and 100: the submitted attempts are
\* among the opened ones of the same read.
C20_CompletionRateRounded ==
    [][\A p \in Procs :
        (Returns(p, "get_last_7_days_stats") /\ res'[p].ok) =>
            \A i \in 1..Len(DateList) :
                LET rate == res'[p].stats.daily_stats[i].completion_rate
                    opened == Len(Opened(p, DateList[i]))
                    submitted == Len(Submitted(p, DateList[i]))
                    diff == rate.num * opened - 100 * submitted * rate.den IN
                /\ submitted <= opened
                /\ rate.den > 0 /\ 100 % rate.den = 0
                /\ 0 <= rate.num /\ rate.num <= 100 * rate.den
                /\ opened = 0 => rate = ZeroPct
                /\ opened > 0 => /\ 200 * diff <= rate.den * opened
                                 /\ -200 * diff <= rate.den * opened]_vars

\* The statistics of a date where one of three opened attempts was
\* submitted have returned, a start_quiz_attempt being under way.
C20_Witness ==
    \E p, q \in Procs :
        /\ pc[p] = "done" /\ op[p] = "get_last_7_days_stats" /\ res[p].ok
        /\ res[p].stats.daily_stats[1].completion_rate = [num |-> 3333, den |-> 100]
        /\ res[p].stats.daily_stats[1].participants_count = 1
        /\ op[q] = "start_quiz_attempt" /\ pc[q] # "done"

\* C21: with the store connected, a get_quiz_analytics received when the
\* date has no quiz returns the error "No quiz found" at once, whatever
\* the attempts collection holds; when the quiz exists and its find meets
\* no completed attempt of the date, it returns, without error, the
\* message "No completed attempts found" with participants_count 0,
\* attempts in progress being there or not; and when it meets one, the
\* result counts the completed attempts only.
C21_NoQuizNoAttempts ==
    [][\A p \in Procs :
        /\ (connected /\ Receives(p, "get_quiz_analytics"))
           => IF QuizExists(args'[p].quiz_date)
              THEN pc'[p] = "analytics_attempts"
              ELSE pc'[p] = "done" /\ res'[p] = Result(FALSE, "No quiz found")
        /\ (pc[p] = "analytics_attempts" /\ Acts(p))
           => IF \E k \in 1..Len(attempts_collection) :
                    /\ attempts_collection[k].quiz_date = args[p].quiz_date
                    /\ attempts_collection[k].is_completed
              THEN pc'[p] = "analytics_users"
              ELSE /\ pc'[p] = "done" /\ res'[p].ok
                   /\ res'[p].message = "No completed attempts found"
                   /\ res'[p].stats.participants_count = 0
        /\ (pc[p] = "analytics_users" /\ Acts(p))
           => /\ res'[p].ok
              /\ \A k \in 1..Len(found[p].attempts) : found[p].attempts[k].is_completed
              /\ res'[p].stats.participants_count = Len(found[p].attempts)]_vars

\* get_quiz_analytics has answered "No completed attempts found" for a
\* date with an attempt in progress.
C21_Witness ==
    \E p \in Procs :
        /\ pc[p] = "done" /\ op[p] = "get_quiz_analytics" /\ res[p].ok
        /\ res[p].message = "No completed attempts found"
        /\ res[p].stats.participants_count = 0
        /\ \E u \in Users : InProgress(u, args[p].quiz_date)

\* The band of a percentage: 1 for [90, 100], 2 for [80, 90), 3 for
\* [70, 80), 4 for [60, 70), 5 for [0, 60).
Band(x) ==
    IF x.num >= 90 * x.den THEN 1
    ELSE IF x.num >= 80 * x.den THEN 2
    ELSE IF x.num >= 70 * x.den THEN 3
    ELSE IF x.num >= 60 * x.den THEN 4
    ELSE 5

\* The sum of a tuple of numbers.
RECURSIVE Sum(_)
Sum(t) == IF t = <<>> THEN 0 ELSE Head(t) + Sum(Tail(t))

\* C22: in the result of get_quiz_analytics the count of each of the five
\* bands is the number of completed attempts read whose percentage lies in
\* it, 90, 80, 70 and 60 lying in the higher band, and the five counts sum
\* to participants_count.
C22_FiveBands ==
    [][\A p \in Procs :
        (pc[p] = "analytics_users" /\ Acts(p)) =>
            LET attempts == found[p].attempts
                stats == res'[p].stats IN
            /\ res'[p].ok
            /\ Len(stats.score_distribution) = 5
            /\ \A b \in 1..5 :
                  stats.score_distribution[b] =
                     Cardinality({k \in 1..Len(attempts) : Band(attempts[k].percentage) = b})
            /\ Sum(stats.score_distribution) = stats.participants_count
            /\ stats.participants_count = Len(attempts)]_vars

\* The analytics of three completed attempts with the percentages 90, 80
\* and 60 have returned: one in each of the bands from 90, from 80 and
\* from 60.
C22_Witness ==
    \E p \in Procs :
        /\ pc[p] = "done" /\ op[p] = "get_quiz_analytics" /\ res[p].ok
        /\ res[p].message = ""
        /\ res[p].stats.score_distribution = <<1, 1, 0, 1, 0>>
        /\ \E i, j, k \in 1..Len(attempts_collection) :
              /\ attempts_collection[i].percentage = [num |-> 90, den |-> 1]
              /\ attempts_collection[j].percentage = [num |-> 80, den |-> 1]
              /\ attempts_collection[k].percentage = [num |-> 60, den |-> 1]

\* C23: all_participants holds one entry for each completed attempt read
\* (the entry of its user, with its score and percentage), in the order of
\* non-increasing percentage, and the entry at position k has rank k,
\* entries of equal percentage too.
C23_RankedParticipants ==
    [][\A p \in Procs :
        (pc[p] = "analytics_users" /\ Acts(p)) =>
            LET attempts == found[p].attempts
                ranked == res'[p].stats.all_participants IN
            /\ Len(ranked) = Len(attempts)
            /\ \A k \in 1..Len(attempts) :
                  Cardinality({i \in 1..Len(ranked) :
                      /\ ranked[i].name = attempts[k].user_id
                      /\ ranked[i].score = attempts[k].score
                      /\ ranked[i].total_questions = attempts[k].total_questions
                      /\ ranked[i].percentage = attempts[k].percentage}) = 1
            /\ \A i \in 1..Len(ranked) : ranked[i].rank = i
            /\ \A i, j \in 1..Len(ranked) :
                  i < j => ~Less(ranked[i].percentage, ranked[j].percentage)]_vars

\* The ranking of three completed attempts has returned in which the
\* attempt stored last is first and the other two, of equal percentage,
\* have the ranks 2 and 3.
C23_Witness ==
    \E p \in Procs :
        /\ pc[p] = "done" /\ op[p] = "get_quiz_analytics" /\ res[p].ok
        /\ res[p].message = ""
        /\ LET ranked == res[p].stats.all_participants IN
           /\ Len(ranked) = 3
           /\ ranked[1].name = "u3" /\ ranked[2].name = "u1" /\ ranked[3].name = "u2"
           /\ ranked[2].percentage = ranked[3].percentage
           /\ ranked[2].rank = 2 /\ ranked[3].rank = 3

\* The stored answers are scored against the key: every answer for a
\* question of the key has is_correct set, True exactly when it selects
\* the key's option, and score counts the answers that are correct.
Consistent(doc, correct_answers) ==
    /\ \A i \in 1..Len(doc.answers) :
          \A n \in 1..Len(correct_answers) :
             doc.answers[i].question_index = PyInt(n - 1)
             => doc.answers[i].is_correct =
                   PyBool(doc.answers[i].selected_answer = correct_answers[n])
    /\ doc.score = Cardinality({i \in 1..Len(doc.answers) :
                                   doc.answers[i].is_correct = PyBool(TRUE)})

\* C24: every stored attempt with is_completed = True is consistent with
\* the answer key of the quiz of its date.
C24_CompletedConsistent ==
    \A k \in 1..Len(attempts_collection) :
        attempts_collection[k].is_completed
        => Consistent(attempts_collection[k],
                      CorrectAnswers(FindQuizOne(attempts_collection[k].quiz_date)))

\* C25: in every reachable state each stored attempt has is_completed =
\* True exactly when completed_at is set, and one with is_completed =
\* False has score 0, percentage 0 and no answer with is_correct set: no
\* state of the store shows a part of what submit writes.
C25_AtomicCompletion ==
    \A k \in 1..Len(attempts_collection) :
        LET doc == attempts_collection[k] IN
        /\ doc.is_completed <=> doc.completed_at # NoTime
        /\ ~doc.is_completed
              => /\ doc.score = 0
                 /\ doc.percentage = ZeroPct
                 /\ \A i \in 1..Len(doc.answers) : doc.answers[i].is_correct = PyNone

\* A submit has returned a score of one or more, and the stored attempt
\* is completed with that score and a scored answer.
C25_Witness ==
    \E k \in 1..Len(attempts_collection) :
        /\ attempts_collection[k].is_completed
        /\ attempts_collection[k].completed_at # NoTime
        /\ attempts_collection[k].score >= 1
        /\ \E i \in 1..Len(attempts_collection[k].answers) :
              attempts_collection[k].answers[i].is_correct = PyBool(TRUE)
        /\ \E p \in Procs :
              /\ pc[p] = "done" /\ op[p] = "submit_quiz" /\ res[p].ok
              /\ args[p].user_id = attempts_collection[k].user_id
              /\ res[p].score_result.score = attempts_collection[k].score

\* C26: a read that raises is never taken for "no attempt" or "no quiz":
\* can_user_attempt_quiz answers True for no pair whose attempt is stored
\* as completed, save_answer and submit_quiz answer "No active attempt
\* found" for no pair that has a stored attempt, and no call answers that
\* the date has no quiz, or that the quiz was not found, when it has one.
C26_ReadFaultsReported ==
    [][\A p \in Procs :
        /\ (Returns(p, "can_user_attempt_quiz") /\ res'[p].ok)
           => ~Completed(args'[p].user_id, args'[p].quiz_date)
        /\ (/\ Returns(p, "save_answer") \/ Returns(p, "submit_quiz")
            /\ res'[p].message = "No active attempt found")
           => StoredFor(args'[p].user_id, args'[p].quiz_date) = {}
        /\ (/\ Acts(p) /\ pc'[p] = "done"
            /\ res'[p].message \in {"No quiz available for date", "Quiz not found"})
           => ~QuizExists(args'[p].quiz_date)]_vars

\* The answer is for a question the key has not.
OutOfRange(answer, correct_answers) ==
    \A n \in 1..Len(correct_answers) : answer.question_index # PyInt(n - 1)

\* C27: the update of a submit_quiz whose attempt holds an answer for a
\* question index beyond the quiz succeeds: the stored attempt keeps every
\* answer of the attempt, that answer with is_correct unset, its score
\* counts the answers that match the key and no other, and its
\* total_questions is the number of questions of the quiz.
C27_OutOfRangeTolerated ==
    [][\A p \in Procs :
        LET key == CorrectAnswers(FindQuizOne(args[p].quiz_date)) IN
        (/\ pc[p] = "submit_update" /\ Acts(p)
         /\ MatchedById(attempt[p].id) # {}
         /\ \E i \in 1..Len(attempt[p].answers) : OutOfRange(attempt[p].answers[i], key))
        => /\ res'[p].ok
           /\ res'[p].score_result.total_questions = Len(key)
           /\ \A k \in MatchedById(attempt[p].id) :
                 LET doc == attempts_collection'[k] IN
                 /\ doc.is_completed
                 /\ doc.total_questions = Len(key)
                 /\ Pairs(doc.answers) = Pairs(attempt[p].answers)
                 /\ \A i \in 1..Len(doc.answers) :
                       OutOfRange(doc.answers[i], key) => doc.answers[i].is_correct = PyNone
                 /\ doc.score = Cardinality(Matches(key, doc.answers))
                 /\ doc.score = res'[p].score_result.score]_vars

\* A submit_quiz has succeeded on an attempt whose stored answers hold
\* one for the question index just beyond the quiz, unscored.
C27_Witness ==
    \E p \in Procs :
        /\ pc[p] = "done" /\ op[p] = "submit_quiz" /\ res[p].ok
        /\ \E k \in StoredFor(args[p].user_id, args[p].quiz_date) :
              /\ attempts_collection[k].is_completed
              /\ attempts_collection[k].total_questions = MaxQuestions
              /\ \E i \in 1..Len(attempts_collection[k].answers) :
                    /\ attempts_collection[k].answers[i].question_index = PyInt(MaxQuestions)
                    /\ attempts_collection[k].answers[i].is_correct = PyNone

\* C28: when two save_answer calls for different question indices of one
\* pair have both returned success, the stored attempt of the pair holds
\* the answer of each.
C28_NoLostSave ==
    \A p, q \in Procs :
        (/\ p # q
         /\ pc[p] = "done" /\ op[p] = "save_answer" /\ res[p].ok
         /\ pc[q] = "done" /\ op[q] = "save_answer" /\ res[q].ok
         /\ args[p].user_id = args[q].user_id
         /\ args[p].quiz_date = args[q].quiz_date
         /\ args[p].question_index # args[q].question_index)
        => /\ Holds(args[p].user_id, args[p].quiz_date,
                    args[p].question_index, args[p].selected_answer)
           /\ Holds(args[q].user_id, args[q].quiz_date,
                    args[q].question_index, args[q].selected_answer)

\* C29: in every reachable state the date of every stored attempt, in
\* progress or completed, has a quiz, and the attempt's total_questions is
\* the number of questions of that quiz.
C29_TotalQuestions ==
    \A k \in 1..Len(attempts_collection) :
        /\ QuizExists(attempts_collection[k].quiz_date)
        /\ attempts_collection[k].total_questions =
              Len(FindQuizOne(attempts_collection[k].quiz_date).questions)

\* The operations on the attempt of a pair.
Lifecycle == {"start_quiz_attempt", "save_answer", "submit_quiz"}

\* C30: a step of start_quiz_attempt, save_answer or submit_quiz for a
\* pair leaves the users, the quizzes and every stored attempt of another
\* pair as they are and adds no attempt but one of its pair; and the
\* update of a save_answer changes nothing of the attempt of its pair but
\* answers and auto_saved.
C30_IsolatedPerPair ==
    [][\A p \in Procs :
        (Acts(p) /\ op'[p] \in Lifecycle)
        => /\ users_collection' = users_collection
           /\ quizzes_collection' = quizzes_collection
           /\ Len(attempts_collection') \in
                 {Len(attempts_collection), Len(attempts_collection) + 1}
           /\ \A k \in 1..Len(attempts_collection') :
                 \/ /\ attempts_collection'[k].user_id = args'[p].user_id
                    /\ attempts_collection'[k].quiz_date = args'[p].quiz_date
                 \/ /\ k <= Len(attempts_collection)
                    /\ attempts_collection'[k] = attempts_collection[k]
           /\ op'[p] = "save_answer"
                 => /\ Len(attempts_collection') = Len(attempts_collection)
                    /\ \A k \in 1..Len(attempts_collection) :
                          attempts_collection[k] =
                             [attempts_collection'[k] EXCEPT
                                 !.answers = attempts_collection[k].answers,
                                 !.auto_saved = attempts_collection[k].auto_saved]]_vars

\* A save_answer of one user has succeeded and stored its answer, the
\* attempt of the other user standing as it was started.
C30_Witness ==
    \E p \in Procs :
        /\ pc[p] = "done" /\ op[p] = "save_answer" /\ res[p].ok
        /\ Holds(args[p].user_id, args[p].quiz_date,
                 args[p].question_index, args[p].selected_answer)
        /\ \E k \in 1..Len(attempts_collection) :
              /\ attempts_collection[k].user_id # args[p].user_id
              /\ attempts_collection[k].answers = <<>>
              /\ ~attempts_collection[k].auto_saved

====
